------------------------- MODULE ProjectionStoreProofs -------------------------
(***************************************************************************)
(* What the run of ProjectionStore shows for a few processes and one small *)
(* plan, proved for every number of processes, every plan and every        *)
(* schema: what commands report of a workspace is there, no step takes an  *)
(* event out of a log, and no command works on half a schema.              *)
(***************************************************************************)
EXTENDS ProjectionStore, FiniteSetTheorems, TLAPS

InitPlaces == {"look", "make", "open", "fill"}
OpenPlaces == {"schema", "select", "stamp", "use"}

(* A step of one process.                                                  *)
StepOf(p) ==
  \/ Start(p) /\ UNCHANGED stores
  \/ InitSteps(p) /\ UNCHANGED stores
  \/ VerifySteps(p) /\ UNCHANGED stores
  \/ AppendSteps(p) /\ UNCHANGED stores
  \/ held[p] = NoStore /\ Abandon(p) /\ UNCHANGED stores
  \/ StartOpen(p) \/ MakeDb(p) \/ Connect(p) \/ CreateTable(p) \/ CreateIndex(p)
  \/ SelectVersion(p) \/ InsertVersion(p) \/ UpdateVersion(p) \/ CloseStore(p)

-----------------------------------------------------------------------------
(* The inductive invariant.                                                *)

(* A process is somewhere in the plan only while it goes through it.       *)
OnTarget(p) ==
  /\ pc[p] = "idle" => disturbed[p] = "no"
  /\ pc[p] \in {"idle", "mkdir", "connect"} => at[p] = 1
  /\ pc[p] \in {"make", "open", "fill"} => at[p] <= Len(Plan)
  /\ pc[p] \in {"open", "fill"} => ~InDirs(Target(p))
  /\ pc[p] = "fill" => Target(p) \notin Logs

(* What a command has passed is still there, unless db/ was deleted.       *)
Passed(p) ==
  disturbed[p] # "removed" =>
    /\ pc[p] \in InitPlaces => \A i \in DOMAIN Plan : i < at[p] => Exists(Plan[i])
    /\ pc[p] = "inspect" => \A i \in DOMAIN Plan : i < at[p] => Fits(Plan[i])
    /\ pc[p] = "open" => MayHold(Target(p))
    /\ pc[p] = "fill" => Exists(Target(p))

(* What nobody disturbs runs alone, and what it found missing is missing.  *)
RunsAlone ==
  \A p, q \in Proc : (p # q /\ disturbed[p] = "no" /\ pc[p] # "idle") => pc[q] = "idle"
Missing(p) ==
  (disturbed[p] = "no" /\ pc[p] \in {"make", "open"} /\ ~InDirs(Target(p)))
    => ~Exists(Target(p))

(* What an opener has established of the file it has open.                 *)
Built(p) ==
  /\ held[p] # NoStore <=> pc[p] \in OpenPlaces
  /\ pc[p] = "schema" =>
       \A i \in DOMAIN Tables : i < at[p] => Tables[i] \in Mine(p).tables
  /\ pc[p] \in {"select", "stamp", "use"} => Complete(Mine(p))

AllCurrent(s) == \A k \in DOMAIN s.versions : s.versions[k] = SchemaVersion
Read(p) ==
  /\ pc[p] = "stamp" =>
       /\ row[p] = {} => AllCurrent(Mine(p))
       /\ \A v \in row[p] :
            /\ Mine(p).versions # <<>>
            /\ \A k \in DOMAIN Mine(p).versions : Mine(p).versions[k] \in {v, SchemaVersion}
  /\ pc[p] = "use" => Mine(p).versions # <<>> /\ AllCurrent(Mine(p))

OfPlan(p) == OnTarget(p) /\ Passed(p) /\ Missing(p)
OfStore(p) == Built(p) /\ Read(p)

IInv ==
  /\ StoreTypeOK
  /\ ReadyIsWhole
  /\ WorksWhereTold
  /\ RunsAlone
  /\ \A p \in Proc : OfPlan(p)
  /\ \A i \in Inode : Sound(store[i])
  /\ \A p \in Proc : OfStore(p)

-----------------------------------------------------------------------------
(* The plan and the tree.                                                  *)

LEMMA PlanEntries ==
  /\ Len(Plan) \in Nat /\ DOMAIN Plan = 1..Len(Plan)
  /\ \A i \in DOMAIN Plan : Plan[i] \in Planned
<1>1. Plan \in Seq(Planned \cup {Root})
  <2>1. Dirs \in Seq(Planned \cup {Root}) /\ Files \in Seq(Planned \cup {Root})
    <3> DEFINE P == Planned
    <3>1. Dirs \in Seq(P) /\ Files \in Seq(P)
      BY PlanAssumption
    <3> HIDE DEF P
    <3>2. Dirs \in Seq(P \cup {Root}) /\ Files \in Seq(P \cup {Root})
      BY <3>1
    <3> QED BY <3>2 DEF P
  <2>2. <<Root>> \in Seq(Planned \cup {Root})
    OBVIOUS
  <2> QED BY <2>1, <2>2 DEF Plan
<1>2. \A i \in DOMAIN Plan : Plan[i] \in Planned
  BY DEF Planned
<1> QED BY <1>1, <1>2

(* What a command makes: a directory of the plan.                          *)
LEMMA NeededFolder ==
  ASSUME NEW p \in Proc, at[p] \in Nat \ {0}, ~Finished(p)
  PROVE  /\ Target(p) \in Planned /\ Needed(p) \in Folder
         /\ ~InDirs(Target(p)) => /\ Parent[Target(p)] = Needed(p)
                                 /\ Target(p) # Root
<1>1. Target(p) \in Planned
  BY PlanEntries DEF Target, Finished
<1>2. InDirs(Root)
  BY DEF InDirs
<1> QED BY <1>1, <1>2, PlanAssumption DEF Needed, Folder, Path

(* mkdir leaves what is there and adds directories only.                   *)
LEMMA MadeDirEffect ==
  ASSUME IsTree(tree), NEW path \in Folder, MayMakeDir(path), tree' = MadeDir(path)
  PROVE  /\ IsTree(tree')
         /\ \A x \in DOMAIN tree : x \in DOMAIN tree' /\ tree'[x] = tree[x]
         /\ \A x \in DOMAIN tree' \ DOMAIN tree : x \in Folder
         /\ path \in DOMAIN tree' /\ tree'[path].kind = "dir"
<1>1. path \in Path /\ path \in Chain[path] /\ Chain[path] \subseteq Folder /\ Folder \subseteq Path
  BY ChainAssumption DEF Folder, Path
<1>2. Dir \in Entry /\ Dir.kind = "dir"
  BY DEF Dir, Entry
<1>3. DOMAIN tree' = DOMAIN tree \cup Chain[path]
  BY DEF MadeDir
<1>4. \A x \in DOMAIN tree \cup Chain[path] : tree'[x] = IF x \in DOMAIN tree THEN tree[x] ELSE Dir
  BY DEF MadeDir, Exists
<1>5. IsTree(tree')
  BY <1>1, <1>2, <1>3, <1>4 DEF IsTree
<1>6. tree'[path].kind = "dir"
  BY <1>1, <1>2, <1>4 DEF MayMakeDir, Exists
<1> QED BY <1>1, <1>3, <1>4, <1>5, <1>6

(* A file is created, or grows.                                            *)
LEMMA WithEffect ==
  ASSUME IsTree(tree), NEW path \in Path, NEW n \in Nat, tree' = With(path, File(n))
  PROVE  /\ IsTree(tree')
         /\ DOMAIN tree' = DOMAIN tree \cup {path}
         /\ \A x \in DOMAIN tree \ {path} : tree'[x] = tree[x]
         /\ tree'[path] = File(n)
<1>1. File(n) \in Entry /\ File(n).kind = "file" /\ File(n).size = n
  BY DEF File, Entry
<1> QED BY <1>1 DEF With, IsTree

(* Every step but the deletion of db/ only adds to the tree.               *)
Grows ==
  /\ \A x \in DOMAIN tree : x \in DOMAIN tree' /\ tree'[x].kind = tree[x].kind
  /\ \A f \in Logs : f \in DOMAIN tree => tree'[f].size >= tree[f].size

LEMMA StepGrows ==
  ASSUME IInv, NEW p \in Proc, StepOf(p)
  PROVE  IsTree(tree') /\ Grows
<1>1. IsTree(tree) /\ at[p] \in Nat \ {0} /\ OnTarget(p)
  BY DEF IInv, StoreTypeOK, TypeOK, OfPlan
<1>2. \A x \in DOMAIN tree : tree[x].size \in Nat /\ tree[x].kind \in {"dir", "file"}
  BY <1>1 DEF IsTree, Entry
<1>3. CASE UNCHANGED tree
  BY <1>1, <1>2, <1>3 DEF Grows
<1>4. CASE Make(p)
  <2>1. ~Finished(p)
    BY <1>1, <1>4, PlanEntries DEF Make, OnTarget, Finished
  <2>2. Needed(p) \in Folder
    BY <1>1, <2>1, NeededFolder
  <2>3. IsTree(tree') /\ \A x \in DOMAIN tree : x \in DOMAIN tree' /\ tree'[x] = tree[x]
    BY <1>1, <1>4, <2>2, MadeDirEffect DEF Make
  <2> QED BY <1>2, <2>3 DEF Grows
<1>5. CASE MakeDb(p) \/ Ensure(p)
  <2>1. Db \in Folder /\ Parent[Log] \in Folder
    BY PlanAssumption DEF Path, Folder, InDirs
  <2>2. PICK path \in Folder : MayMakeDir(path) /\ tree' = MadeDir(path)
    BY <1>5, <2>1 DEF MakeDb, Ensure
  <2>3. IsTree(tree') /\ \A x \in DOMAIN tree : x \in DOMAIN tree' /\ tree'[x] = tree[x]
    BY <1>1, <2>2, MadeDirEffect
  <2> QED BY <1>2, <2>3 DEF Grows
<1>6. CASE Open(p)
  <2>1. Target(p) \in Path /\ ~Exists(Target(p)) /\ tree' = With(Target(p), File(0))
    BY <1>1, <1>6, PlanEntries, NeededFolder DEF Open, OnTarget, Finished, Path
  <2>2. /\ IsTree(tree')
        /\ \A x \in DOMAIN tree : x \in DOMAIN tree' /\ tree'[x] = tree[x]
    BY <1>1, <2>1, WithEffect DEF Exists
  <2> QED BY <1>2, <2>2 DEF Grows
<1>7. CASE Fill(p)
  <2>1. tree' = [tree EXCEPT ![Target(p)].size = 1] /\ Target(p) \notin Logs
    BY <1>1, <1>7 DEF Fill, OnTarget
  <2>2. /\ DOMAIN tree' = DOMAIN tree
        /\ \A x \in DOMAIN tree : x # Target(p) => tree'[x] = tree[x]
        /\ Target(p) \in DOMAIN tree => tree'[Target(p)] = [tree[Target(p)] EXCEPT !.size = 1]
    BY <2>1, Zenon
  <2>3. \A x \in DOMAIN tree : tree'[x] \in Entry /\ tree'[x].kind = tree[x].kind
    BY <1>1, <2>2 DEF IsTree, Entry
  <2> QED BY <1>1, <1>2, <2>1, <2>2, <2>3 DEF Grows, IsTree
<1>8. CASE AppendEvent(p)
  <2>1. Log \in Path
    BY PlanAssumption DEF Path, Folder
  <2> DEFINE n == IF Exists(Log) THEN tree[Log].size + 1 ELSE 1
  <2>2. n \in Nat /\ tree' = With(Log, File(n)) /\ (Exists(Log) => tree[Log].kind = "file")
    BY <1>2, <1>8 DEF AppendEvent, Exists
  <2>3. Exists(Log) => n = tree[Log].size + 1
    OBVIOUS
  <2> HIDE DEF n
  <2>4. /\ IsTree(tree')
        /\ DOMAIN tree' = DOMAIN tree \cup {Log}
        /\ \A x \in DOMAIN tree \ {Log} : tree'[x] = tree[x]
        /\ tree'[Log] = File(n)
    BY <1>1, <2>1, <2>2, WithEffect
  <2>5. tree'[Log].kind = "file" /\ tree'[Log].size = n
    BY <2>4 DEF File
  <2> QED BY <1>2, <2>2, <2>3, <2>4, <2>5 DEF Grows, Exists
<1> QED
  BY <1>3, <1>4, <1>5, <1>6, <1>7, <1>8
  DEF StepOf, Start, Begin, StartOpen, InitSteps, LookFinds, LookMisses, MakeRefused, OpenRefused,
      Initialized, VerifySteps, Inspect, VerifiedOk, VerifyFails, AppendSteps, Abandon, Connect,
      CreateTable, CreateIndex, SelectVersion, InsertVersion, UpdateVersion, CloseStore, vars, stores
-----------------------------------------------------------------------------
(* A step of a process leaves the others where they are; it may count as a *)
(* disturbance for them.                                                   *)

Types ==
  /\ pc \in [Proc -> StorePlaces]
  /\ at \in [Proc -> Nat \ {0}]
  /\ disturbed \in [Proc -> {"no", "raced", "removed"}]
  /\ told \in [Proc -> BOOLEAN]
  /\ starts \in 0..MaxStarts

Undisturbed(p) ==
  \A q \in Proc \ {p} :
    \/ disturbed'[q] = disturbed[q]
    \/ pc[p] = "idle" /\ pc[q] # "idle" /\ disturbed[q] = "no" /\ disturbed'[q] = "raced"

Begins(p) == \E step \in FirstSteps \cup {"mkdir"} : Begin(p, step)

LEMMA BeginFrame ==
  ASSUME Types, WorksWhereTold, NEW p \in Proc, Begins(p)
  PROVE  /\ Types' /\ WorksWhereTold' /\ Undisturbed(p)
         /\ pc[p] = "idle" /\ pc'[p] \in FirstSteps \cup {"mkdir"}
         /\ at' = at /\ tree' = tree /\ ready' = ready
         /\ \A q \in Proc \ {p} : pc'[q] = pc[q]
         /\ disturbed'[p] = "no" => \A q \in Proc \ {p} : pc[q] = "idle"
         /\ disturbed'[p] # "removed"
         /\ \A q \in Proc \ {p} : pc[q] # "idle" => disturbed'[q] # "no"
<1>1. PICK step \in FirstSteps \cup {"mkdir"} : Begin(p, step)
  BY DEF Begins
<1>2. PICK s \in Setting : Resolves(s) /\ told' = [told EXCEPT ![p] = s.process \in {Root, Absent}]
  BY <1>1 DEF Begin
<1>3. s.process \in {Root, Absent}
  BY <1>2, ValueAssumption DEF Resolves, Raw
<1>4. told' \in [Proc -> BOOLEAN] /\ WorksWhereTold'
  BY <1>2, <1>3 DEF Types, WorksWhereTold
<1>5. /\ starts' = starts + 1 /\ starts < MaxStarts
      /\ pc[p] = "idle" /\ pc' = [pc EXCEPT ![p] = step]
      /\ disturbed' = [q \in Proc |->
                     IF q = p THEN (IF \E r \in Proc \ {p} : pc[r] # "idle" THEN "raced" ELSE "no")
                     ELSE IF pc[q] # "idle" /\ disturbed[q] = "no" THEN "raced" ELSE disturbed[q]]
      /\ UNCHANGED <<tree, at, ready>>
  BY <1>1 DEF Begin
<1>6. Types'
  BY <1>4, <1>5, StartsAssumption DEF Types, FirstSteps, StorePlaces, Places
<1>7. Undisturbed(p)
  BY <1>5 DEF Undisturbed
<1> QED BY <1>4, <1>5, <1>6, <1>7 DEF Types

(* It ends, with an error or a report.                                     *)
LEMMA EndFrame ==
  ASSUME Types, WorksWhereTold, NEW p \in Proc, Ends(p), UNCHANGED starts
  PROVE  /\ Types' /\ WorksWhereTold' /\ Undisturbed(p)
         /\ pc'[p] = "idle" /\ at'[p] = 1 /\ disturbed'[p] = "no"
         /\ \A q \in Proc \ {p} : pc'[q] = pc[q] /\ at'[q] = at[q] /\ disturbed'[q] = disturbed[q]
  BY DEF Ends, Types, WorksWhereTold, Undisturbed, StorePlaces, Places

(* It goes on.                                                             *)
GoesOn(p) ==
  /\ pc[p] # "idle"
  /\ UNCHANGED <<starts, disturbed, told, ready>>
  /\ \E place \in StorePlaces \ {"idle"} : pc' = [pc EXCEPT ![p] = place]
  /\ \E n \in Nat \ {0} : at' = [at EXCEPT ![p] = n]

LEMMA GoesOnFrame ==
  ASSUME Types, WorksWhereTold, NEW p \in Proc, GoesOn(p)
  PROVE  /\ Types' /\ WorksWhereTold' /\ Undisturbed(p)
         /\ pc[p] # "idle" /\ pc'[p] # "idle"
         /\ \A q \in Proc \ {p} : pc'[q] = pc[q] /\ at'[q] = at[q]
         /\ disturbed' = disturbed
  BY DEF GoesOn, Types, WorksWhereTold, Undisturbed

(* Every step is one of these.                                             *)
Finishes(p) == Ends(p) /\ UNCHANGED starts /\ pc[p] # "idle"

LEMMA StepShape ==
  ASSUME Types, NEW p \in Proc, Built(p), StepOf(p)
  PROVE  Begins(p) \/ Finishes(p) \/ GoesOn(p)
<1>1. pc[p] \in StorePlaces /\ at[p] \in Nat \ {0} /\ at[p] + 1 \in Nat \ {0}
  BY DEF Types
<1>2. at = [at EXCEPT ![p] = at[p]] /\ pc = [pc EXCEPT ![p] = pc[p]]
  BY DEF Types
<1>3. CASE Start(p) \/ StartOpen(p)
  BY <1>3 DEF Start, StartOpen, Begins
<1>4. CASE InitSteps(p)
  <2>1. CASE LookFinds(p)
    BY <1>1, <1>2, <2>1 DEF LookFinds, Moves, GoesOn, StorePlaces, Places
  <2>2. CASE LookMisses(p)
    BY <1>1, <1>2, <2>2 DEF LookMisses, Goes, GoesOn, StorePlaces, Places
  <2>3. CASE Make(p)
    BY <1>1, <1>2, <2>3 DEF Make, Moves, GoesOn, StorePlaces, Places
  <2>4. CASE Open(p)
    BY <1>1, <1>2, <2>4 DEF Open, Moves, GoesOn, StorePlaces, Places
  <2>5. CASE Fill(p)
    BY <1>1, <1>2, <2>5 DEF Fill, Moves, GoesOn, StorePlaces, Places
  <2>6. CASE MakeRefused(p) \/ OpenRefused(p) \/ Initialized(p)
    BY <2>6 DEF MakeRefused, OpenRefused, Initialized, Finishes
  <2> QED BY <1>4, <2>1, <2>2, <2>3, <2>4, <2>5, <2>6 DEF InitSteps
<1>5. CASE VerifySteps(p)
  BY <1>1, <1>2, <1>5
  DEF VerifySteps, Inspect, VerifiedOk, VerifyFails, Finishes, GoesOn, StorePlaces, Places
<1>6. CASE AppendSteps(p)
  BY <1>1, <1>2, <1>6 DEF AppendSteps, Ensure, AppendEvent, Goes, Finishes, GoesOn, StorePlaces, Places
<1>7. CASE Abandon(p) \/ CloseStore(p)
  BY <1>7 DEF Abandon, CloseStore, Finishes, Built, OpenPlaces
<1>8. CASE MakeDb(p) \/ Connect(p) \/ CreateIndex(p) \/ SelectVersion(p)
  BY <1>1, <1>2, <1>8
  DEF MakeDb, Connect, CreateIndex, SelectVersion, Goes, GoesOn, StorePlaces, Places
<1>9. CASE CreateTable(p) \/ InsertVersion(p) \/ UpdateVersion(p)
  BY <1>1, <1>2, <1>9
  DEF CreateTable, InsertVersion, UpdateVersion, Goes, GoesOn, StorePlaces, Places
<1> QED BY <1>3, <1>4, <1>5, <1>6, <1>7, <1>8, <1>9 DEF StepOf
-----------------------------------------------------------------------------
(* What statements make of a database.                                     *)

TableNames == {Tables[i] : i \in DOMAIN Tables}

(* It only gains; its versions stay, or all of them become current, none   *)
(* of them being newer or corrupt.                                         *)
Advances(s, t) ==
  /\ s.tables \subseteq t.tables
  /\ s.unique => t.unique
  /\ t.doubled = s.doubled
  /\ \/ t.versions = s.versions
     \/ /\ \A k \in DOMAIN s.versions : k \in DOMAIN t.versions /\ Supported(s.versions[k])
        /\ t.versions # <<>>
        /\ AllCurrent(t)

LEMMA DatabaseFields ==
  ASSUME NEW s \in Database
  PROVE  /\ s.tables \subseteq TableNames /\ s.unique \in BOOLEAN /\ s.doubled \in BOOLEAN
         /\ s.versions \in Seq(Version)
  BY DEF Database, TableNames

LEMMA EmptyDatabase == Empty \in Database /\ Sound(Empty) /\ Empty.versions = <<>>
<1>1. <<>> \in Seq(Version)
  OBVIOUS
<1> QED BY <1>1 DEF Empty, Database, Sound, Agree, Stamped

LEMMA StaysSound ==
  ASSUME NEW s \in Database, Sound(s)
  PROVE  Advances(s, s)
  BY DEF Advances

LEMMA TableAdded ==
  ASSUME NEW s \in Database, Sound(s), NEW x \in TableNames,
         NEW t, t = [s EXCEPT !.tables = @ \cup {x}]
  PROVE  t \in Database /\ Sound(t) /\ Advances(s, t)
<1>1. /\ t.tables = s.tables \cup {x} /\ t.unique = s.unique /\ t.doubled = s.doubled
      /\ t.versions = s.versions
  BY DEF Database
<1>2. t \in Database
  BY DEF Database, TableNames
<1>3. Sound(t)
  BY <1>1, <1>2, DatabaseFields DEF Sound, Agree, Stamped, Complete, TableNames
<1> QED BY <1>1, <1>2, <1>3 DEF Advances

LEMMA IndexAdded ==
  ASSUME NEW s \in Database, Sound(s), s.unique \/ ~s.doubled,
         NEW t, t = [s EXCEPT !.unique = TRUE]
  PROVE  t \in Database /\ Sound(t) /\ Advances(s, t) /\ t.unique /\ t.tables = s.tables
<1>1. /\ t.tables = s.tables /\ t.unique = TRUE /\ t.doubled = s.doubled
      /\ t.versions = s.versions
  BY DEF Database
<1>2. t \in Database
  BY DEF Database
<1>3. Sound(t)
  BY <1>1 DEF Sound, Agree, Stamped, Complete
<1> QED BY <1>1, <1>2, <1>3 DEF Advances

LEMMA VersionInserted ==
  ASSUME NEW s \in Database, Complete(s), AllCurrent(s),
         NEW t, t = [s EXCEPT !.versions = Append(@, SchemaVersion)]
  PROVE  /\ t \in Database /\ Sound(t) /\ Advances(s, t)
         /\ t.versions # <<>> /\ AllCurrent(t)
<1>1. SchemaVersion \in Version /\ Supported(SchemaVersion)
  BY SchemaAssumption DEF Version, Supported
<1>2. /\ t.tables = s.tables /\ t.unique = s.unique /\ t.doubled = s.doubled
      /\ t.versions = Append(s.versions, SchemaVersion)
  BY DEF Database
<1>3. s.versions \in Seq(Version)
  BY DatabaseFields
<1>4. /\ t.versions \in Seq(Version) /\ t.versions # <<>>
      /\ DOMAIN t.versions = 1..Len(s.versions) + 1
      /\ DOMAIN s.versions = 1..Len(s.versions)
      /\ \A k \in 1..Len(s.versions) : t.versions[k] = s.versions[k]
      /\ t.versions[Len(s.versions) + 1] = SchemaVersion
  BY <1>1, <1>2, <1>3
<1>5. AllCurrent(t)
  BY <1>3, <1>4 DEF AllCurrent
<1>6. t \in Database
  BY <1>1, <1>3, <1>4 DEF Database
<1>7. Sound(t)
  BY <1>2, <1>5 DEF Sound, Agree, AllCurrent, Complete
<1>8. Advances(s, t)
  BY <1>1, <1>2, <1>3, <1>4, <1>5 DEF Advances, AllCurrent
<1> QED BY <1>4, <1>5, <1>6, <1>7, <1>8

LEMMA VersionsRaised ==
  ASSUME NEW s \in Database, Complete(s), s.versions # <<>>,
         NEW v, Supported(v), \A k \in DOMAIN s.versions : s.versions[k] \in {v, SchemaVersion},
         NEW t, t = [s EXCEPT !.versions = Raised(@)]
  PROVE  /\ t \in Database /\ Sound(t) /\ Advances(s, t)
         /\ t.versions # <<>> /\ AllCurrent(t)
<1>1. SchemaVersion \in Version /\ Supported(SchemaVersion)
  BY SchemaAssumption DEF Version, Supported
<1>2. s.versions \in Seq(Version)
  BY DatabaseFields
<1>3. /\ t.tables = s.tables /\ t.unique = s.unique /\ t.doubled = s.doubled
      /\ t.versions = [k \in DOMAIN s.versions |-> SchemaVersion]
  BY DEF Database, Raised
<1>4. /\ t.versions \in Seq(Version) /\ t.versions # <<>>
      /\ DOMAIN t.versions = DOMAIN s.versions
      /\ \A k \in DOMAIN s.versions : t.versions[k] = SchemaVersion
  BY <1>1, <1>2, <1>3
<1>5. AllCurrent(t)
  BY <1>4 DEF AllCurrent
<1>6. t \in Database
  BY <1>3, <1>4 DEF Database
<1>7. Sound(t)
  BY <1>3, <1>5 DEF Sound, Agree, AllCurrent, Complete
<1>8. Advances(s, t)
  BY <1>1, <1>3, <1>4, <1>5 DEF Advances
<1> QED BY <1>4, <1>5, <1>6, <1>7, <1>8
-----------------------------------------------------------------------------
(* What a step does to the databases.                                      *)

StoreTypes ==
  /\ link \in Inode \cup {NoStore}
  /\ store \in [Inode -> Database]
  /\ held \in [Proc -> Inode \cup {NoStore}]
  /\ row \in [Proc -> SUBSET Version]

StoresSound == \A i \in Inode : Sound(store[i])

(* A file that no name and no other process refers to may be gone.         *)
Dropped(p, i) ==
  /\ store'[i] = Empty
  /\ link # i /\ link' = link
  /\ \A q \in Proc \ {p} : held[q] # i
  /\ held'[p] # i

(* There are more numbers than files in use.                               *)
LEMMA SomeUnused ==
  ASSUME StoreTypes, link = NoStore
  PROVE  Unused # {} /\ Unused \subseteq Inode
<1>1. SUFFICES ASSUME Unused = {} PROVE FALSE
  BY DEF Unused
<1> DEFINE Used == {held[p] : p \in Proc}
<1>2. Inode \subseteq Used
  BY <1>1, NoStoreAssumption DEF Unused
<1>3. IsFiniteSet(Used) /\ Cardinality(Used) <= Cardinality(Proc)
  <2>1. held \in Surjection(Proc, Used)
    BY DEF Surjection, StoreTypes
  <2> QED BY <2>1, ProcAssumption, FS_Surjection
<1>4. Cardinality(Proc) \in Nat
  BY ProcAssumption, FS_CardinalityType
<1>5. Cardinality(Inode) = Cardinality(Proc) + 1
  BY <1>4, FS_Interval DEF Inode
<1>6. Cardinality(Inode) <= Cardinality(Used)
  BY <1>2, <1>3, FS_Subset
<1>7. Cardinality(Used) \in Nat
  BY <1>3, FS_CardinalityType
<1> QED BY <1>3, <1>4, <1>5, <1>6, <1>7

(* One database changes, for the better.                                   *)
LEMMA SetsStep ==
  ASSUME StoreTypes, StoresSound, NEW p \in Proc, held[p] # NoStore,
         NEW t \in Database, Sound(t), Advances(Mine(p), t), Sets(p, t)
  PROVE  /\ store' \in [Inode -> Database] /\ StoresSound'
         /\ \A i \in Inode : Advances(store[i], store'[i])
         /\ store'[held[p]] = t
<1>1. held[p] \in Inode
  BY DEF StoreTypes
<1>2. store' = [store EXCEPT ![held[p]] = t]
  BY DEF Sets
<1>3. \A i \in Inode : store'[i] = IF i = held[p] THEN t ELSE store[i]
  BY <1>2 DEF StoreTypes
<1> QED
  BY <1>1, <1>2, <1>3, StaysSound DEF StoreTypes, StoresSound, Mine

LEMMA StoreStep ==
  ASSUME StoreTypes, StoresSound, NEW p \in Proc, OfStore(p), at[p] \in Nat \ {0}, StepOf(p)
  PROVE  /\ StoreTypes' /\ StoresSound'
         /\ \A i \in Inode : Advances(store[i], store'[i]) \/ Dropped(p, i)
<1>1. CASE UNCHANGED store
  <2>1. StoresSound' /\ \A i \in Inode : Advances(store[i], store'[i])
    BY <1>1, StaysSound DEF StoreTypes, StoresSound
  <2>2. StoreTypes'
    <3>1. CASE Connect(p)
      <4> DEFINE i == IF link # NoStore THEN link ELSE CHOOSE x \in Unused : TRUE
      <4>1. i \in Inode
        BY SomeUnused DEF StoreTypes
      <4>2. link' = i /\ held' = [held EXCEPT ![p] = i] /\ row' = row
        BY <3>1 DEF Connect
      <4> QED BY <1>1, <4>1, <4>2 DEF StoreTypes
    <3>2. CASE SelectVersion(p)
      <4>1. held[p] \in Inode
        BY <3>2 DEF SelectVersion, Goes, OfStore, Built, OpenPlaces, StoreTypes
      <4>2. Mine(p).versions \in Seq(Version)
        BY <4>1, DatabaseFields DEF StoreTypes, Mine
      <4>3. {Mine(p).versions[k] : k \in DOMAIN Mine(p).versions \cap {1}} \subseteq Version
        BY <4>2
      <4> QED BY <1>1, <3>2, <4>3 DEF StoreTypes, SelectVersion
    <3>3. CASE CloseStore(p)
      BY <1>1, <3>3 DEF StoreTypes, CloseStore
    <3>4. CASE UNCHANGED <<link, held, row>>
      BY <1>1, <3>4 DEF StoreTypes
    <3> QED
      BY <3>1, <3>2, <3>3, <3>4
      DEF StepOf, StartOpen, MakeDb, CreateTable, CreateIndex, InsertVersion, UpdateVersion, stores
  <2> QED BY <2>1, <2>2
<1>2. CASE CreateTable(p)
  <2>1. held[p] # NoStore /\ UNCHANGED <<link, held, row>>
    BY <1>2 DEF CreateTable, OfStore, Built, OpenPlaces
  <2>2. Tables[at[p]] \in TableNames
    BY <1>2, SchemaAssumption DEF CreateTable, TableNames
  <2>3. Mine(p) \in Database /\ Sound(Mine(p))
    BY <2>1 DEF StoreTypes, StoresSound, Mine
  <2> DEFINE t == [Mine(p) EXCEPT !.tables = @ \cup {Tables[at[p]]}]
  <2>4. t \in Database /\ Sound(t) /\ Advances(Mine(p), t)
    BY <2>2, <2>3, TableAdded
  <2>5. Sets(p, t)
    BY <1>2 DEF CreateTable
  <2> HIDE DEF t
  <2> QED BY <2>1, <2>4, <2>5, SetsStep DEF StoreTypes
<1>3. CASE CreateIndex(p)
  <2>1. held[p] # NoStore /\ UNCHANGED <<link, held, row>>
    BY <1>3 DEF CreateIndex, Goes, OfStore, Built, OpenPlaces
  <2>2. Mine(p) \in Database /\ Sound(Mine(p))
    BY <2>1 DEF StoreTypes, StoresSound, Mine
  <2> DEFINE t == [Mine(p) EXCEPT !.unique = TRUE]
  <2>3. t \in Database /\ Sound(t) /\ Advances(Mine(p), t)
    BY <1>3, <2>2, IndexAdded DEF CreateIndex
  <2>4. Sets(p, t)
    BY <1>3 DEF CreateIndex
  <2> HIDE DEF t
  <2> QED BY <2>1, <2>3, <2>4, SetsStep DEF StoreTypes
<1>4. CASE InsertVersion(p)
  <2>1. held[p] # NoStore /\ UNCHANGED <<link, held, row>>
    BY <1>4 DEF InsertVersion, Goes, OfStore, Built, OpenPlaces
  <2>2. Mine(p) \in Database /\ Complete(Mine(p)) /\ AllCurrent(Mine(p))
    BY <1>4, <2>1 DEF InsertVersion, Goes, OfStore, Built, Read, StoreTypes, Mine
  <2> DEFINE t == [Mine(p) EXCEPT !.versions = Append(@, SchemaVersion)]
  <2>3. t \in Database /\ Sound(t) /\ Advances(Mine(p), t)
    BY <2>2, VersionInserted
  <2>4. Sets(p, t)
    BY <1>4 DEF InsertVersion
  <2> HIDE DEF t
  <2> QED BY <2>1, <2>3, <2>4, SetsStep DEF StoreTypes
<1>5. CASE UpdateVersion(p) /\ store' # store
  <2>1. held[p] # NoStore /\ UNCHANGED <<link, held, row>>
    BY <1>5 DEF UpdateVersion, Goes, OfStore, Built, OpenPlaces
  <2> DEFINE t == [Mine(p) EXCEPT !.versions = Raised(@)]
  <2>2. PICK v \in row[p] : Supported(v) /\ Sets(p, t)
    BY <1>5 DEF UpdateVersion
  <2>3. /\ Mine(p) \in Database /\ Complete(Mine(p)) /\ Mine(p).versions # <<>>
        /\ \A k \in DOMAIN Mine(p).versions : Mine(p).versions[k] \in {v, SchemaVersion}
    BY <1>5, <2>1, <2>2 DEF UpdateVersion, Goes, OfStore, Built, Read, StoreTypes, Mine
  <2>4. t \in Database /\ Sound(t) /\ Advances(Mine(p), t)
    BY <2>2, <2>3, VersionsRaised
  <2> HIDE DEF t
  <2> QED BY <2>1, <2>2, <2>4, SetsStep DEF StoreTypes
<1>6. CASE CloseStore(p) /\ store' # store
  <2>1. /\ held[p] \in Inode /\ held[p] # link
        /\ \A q \in Proc \ {p} : held[q] # held[p]
        /\ store' = [store EXCEPT ![held[p]] = Empty]
        /\ held' = [held EXCEPT ![p] = NoStore] /\ row' = [row EXCEPT ![p] = {}] /\ link' = link
    BY <1>6 DEF CloseStore, StoreTypes
  <2>2. StoreTypes' /\ StoresSound'
    BY <2>1, EmptyDatabase DEF StoreTypes, StoresSound
  <2>3. \A i \in Inode : Advances(store[i], store'[i]) \/ Dropped(p, i)
    BY <2>1, StaysSound, NoStoreAssumption DEF StoreTypes, StoresSound, Dropped
  <2> QED BY <2>2, <2>3
<1> QED
  BY <1>1, <1>2, <1>3, <1>4, <1>5, <1>6
  DEF StepOf, StartOpen, MakeDb, Connect, SelectVersion, stores
-----------------------------------------------------------------------------
(* What openers have established stays established.                        *)

LEMMA CompleteStays ==
  ASSUME NEW s \in Database, NEW t \in Database, Advances(s, t), Complete(s)
  PROVE  Complete(t)
  BY DatabaseFields DEF Advances, Complete, TableNames

LEMMA OthersOpen ==
  ASSUME Types, StoreTypes, StoresSound, NEW p \in Proc, OfStore(p), StepOf(p),
         NEW q \in Proc \ {p}, OfStore(q),
         pc'[q] = pc[q], at'[q] = at[q]
  PROVE  OfStore(q)'
<1>1. held'[q] = held[q] /\ row'[q] = row[q]
  BY DEF StepOf, StartOpen, MakeDb, Connect, CreateTable, CreateIndex, SelectVersion, InsertVersion,
         UpdateVersion, CloseStore, StoreTypes, stores
<1>2. CASE held[q] = NoStore
  BY <1>1, <1>2 DEF OfStore, Built, Read, OpenPlaces
<1>3. CASE held[q] # NoStore
  <2>1. at[p] \in Nat \ {0}
    BY DEF Types
  <2>2. held[q] \in Inode /\ Mine(q)' = store'[held[q]]
    BY <1>1, <1>3 DEF StoreTypes, Mine
  <2>3. Advances(Mine(q), Mine(q)') /\ Mine(q) \in Database /\ Mine(q)' \in Database
    BY <2>1, <2>2, StoreStep DEF Dropped, StoreTypes, Mine
  <2>4. Complete(Mine(q)) => Complete(Mine(q)')
    BY <2>3, CompleteStays
  <2>5. Built(q)'
    BY <1>1, <2>3, <2>4 DEF OfStore, Built, Advances
  <2>6. Read(q)'
    BY <1>1, <2>3 DEF OfStore, Read, Advances, AllCurrent
  <2> QED BY <2>5, <2>6 DEF OfStore
<1> QED BY <1>2, <1>3

LEMMA OwnOpen ==
  ASSUME Types, StoreTypes, StoresSound, NEW p \in Proc, OfStore(p), OnTarget(p), StepOf(p)
  PROVE  OfStore(p)'
<1>1. at[p] \in Nat \ {0} /\ pc[p] \in StorePlaces
  BY DEF Types
<1>2. held[p] # NoStore => held[p] \in Inode /\ Mine(p) \in Database /\ Sound(Mine(p))
  BY DEF StoreTypes, StoresSound, Mine
<1>3. CASE /\ UNCHANGED stores /\ held[p] = NoStore
           /\ \/ Start(p) \/ StartOpen(p) \/ MakeDb(p) \/ Abandon(p)
              \/ InitSteps(p) \/ VerifySteps(p) \/ AppendSteps(p)
  <2>1. pc'[p] \notin OpenPlaces
    <3>1. CASE Start(p) \/ StartOpen(p) \/ MakeDb(p) \/ Abandon(p)
      BY <3>1 DEF Start, StartOpen, Begin, FirstSteps, MakeDb, Goes, Abandon, Ends, Types, OpenPlaces
    <3>2. CASE InitSteps(p)
      <4>1. pc'[p] \in {"look", "make", "open", "fill", "idle"}
        BY <3>2 DEF InitSteps, LookFinds, LookMisses, Make, MakeRefused, Open, OpenRefused, Fill,
                    Initialized, Goes, Ends, Moves, Types
      <4> QED BY <4>1 DEF OpenPlaces
    <3>3. CASE VerifySteps(p) \/ AppendSteps(p)
      BY <3>3 DEF VerifySteps, Inspect, VerifiedOk, VerifyFails, AppendSteps, Ensure, AppendEvent,
                  Goes, Ends, Types, OpenPlaces
    <3> QED BY <1>3, <3>1, <3>2, <3>3
  <2>2. held'[p] = NoStore
    BY <1>3 DEF stores
  <2> QED BY <2>1, <2>2 DEF OfStore, Built, Read, OpenPlaces
<1>4. CASE Connect(p)
  <2>1. pc'[p] = "schema" /\ at'[p] = 1
    BY <1>4 DEF Connect, Goes, Types, OnTarget
  <2>2. held'[p] \in Inode
    BY <1>4, SomeUnused DEF Connect, StoreTypes
  <2> QED BY <2>1, <2>2, NoStoreAssumption, SchemaAssumption DEF OfStore, Built, Read, OpenPlaces
<1>5. CASE CreateTable(p)
  <2>1. /\ pc'[p] = "schema" /\ at'[p] = at[p] + 1 /\ held' = held /\ held[p] # NoStore
        /\ pc[p] = "schema"
    BY <1>5 DEF CreateTable, Types, OfStore, Built, OpenPlaces
  <2>2. Mine(p)'.tables = Mine(p).tables \cup {Tables[at[p]]}
    BY <1>2, <1>5, <2>1 DEF CreateTable, Sets, Mine, StoreTypes, Database
  <2> QED BY <1>1, <2>1, <2>2, SchemaAssumption DEF OfStore, Built, Read, OpenPlaces
<1>6. CASE CreateIndex(p)
  <2>1. pc[p] = "schema" /\ pc'[p] = "select" /\ held' = held /\ held[p] # NoStore
    BY <1>6 DEF CreateIndex, Goes, Types, OfStore, Built, OpenPlaces
  <2> DEFINE t == [Mine(p) EXCEPT !.unique = TRUE]
  <2>2. /\ t \in Database /\ Sound(t) /\ t.unique /\ t.tables = Mine(p).tables
        /\ Advances(Mine(p), t)
    BY <1>2, <1>6, <2>1, IndexAdded DEF CreateIndex
  <2>3. Sets(p, t)
    BY <1>6 DEF CreateIndex
  <2> HIDE DEF t
  <2>4. Mine(p)' = t
    BY <1>2, <2>1, <2>2, <2>3, SetsStep DEF Mine
  <2>5. TableNames \subseteq Mine(p).tables
    BY <1>1, <1>6, <2>1, SchemaAssumption DEF CreateIndex, OfStore, Built, TableNames
  <2>6. Complete(t)
    BY <1>2, <2>1, <2>2, <2>5, DatabaseFields DEF Complete, Sound, TableNames
  <2> QED BY <2>1, <2>4, <2>6 DEF OfStore, Built, Read, OpenPlaces
<1>7. CASE SelectVersion(p)
  <2>1. /\ pc[p] = "select" /\ pc'[p] = "stamp" /\ held' = held /\ held[p] # NoStore
        /\ store' = store
        /\ row'[p] = {Mine(p).versions[k] : k \in DOMAIN Mine(p).versions \cap {1}}
    BY <1>7 DEF SelectVersion, Goes, Types, StoreTypes, OfStore, Built, OpenPlaces
  <2>2. Mine(p)' = Mine(p) /\ Mine(p).versions \in Seq(Version)
    BY <1>2, <2>1, DatabaseFields DEF Mine
  <2>3. Read(p)'
    <3>1. CASE Mine(p).versions = <<>>
      BY <2>1, <2>2, <3>1 DEF Read, AllCurrent
    <3>2. CASE Mine(p).versions # <<>>
      <4>1. 1 \in DOMAIN Mine(p).versions
        BY <2>2, <3>2
      <4>2. row'[p] = {Mine(p).versions[1]}
        BY <2>1, <4>1
      <4>3. \A k \in DOMAIN Mine(p).versions : Mine(p).versions[k] = Mine(p).versions[1]
        BY <1>2, <2>1, <4>1 DEF Sound, Agree
      <4> QED BY <2>1, <2>2, <3>2, <4>2, <4>3 DEF Read
    <3> QED BY <3>1, <3>2
  <2> QED BY <2>1, <2>2, <2>3 DEF OfStore, Built, OpenPlaces
<1>8. CASE InsertVersion(p)
  <2>1. pc[p] = "stamp" /\ pc'[p] = "use" /\ held' = held /\ held[p] # NoStore
    BY <1>8 DEF InsertVersion, Goes, Types, OfStore, Built, OpenPlaces
  <2> DEFINE t == [Mine(p) EXCEPT !.versions = Append(@, SchemaVersion)]
  <2>2. Complete(Mine(p)) /\ AllCurrent(Mine(p))
    BY <1>8, <2>1 DEF InsertVersion, OfStore, Built, Read
  <2>3. /\ t \in Database /\ Sound(t) /\ Advances(Mine(p), t)
        /\ t.versions # <<>> /\ AllCurrent(t)
    BY <1>2, <2>1, <2>2, VersionInserted
  <2>4. Sets(p, t)
    BY <1>8 DEF InsertVersion
  <2> HIDE DEF t
  <2>5. Mine(p)' = t
    BY <1>2, <2>1, <2>3, <2>4, SetsStep DEF Mine
  <2>6. Complete(t)
    BY <1>2, <2>1, <2>2, <2>3, CompleteStays
  <2> QED BY <2>1, <2>3, <2>5, <2>6 DEF OfStore, Built, Read, OpenPlaces
<1>9. CASE UpdateVersion(p)
  <2>1. pc[p] = "stamp" /\ pc'[p] = "use" /\ held' = held /\ held[p] # NoStore
    BY <1>9 DEF UpdateVersion, Goes, Types, OfStore, Built, OpenPlaces
  <2> DEFINE t == [Mine(p) EXCEPT !.versions = Raised(@)]
  <2>2. PICK v \in row[p] : /\ Supported(v)
                           /\ \/ v = SchemaVersion /\ UNCHANGED store
                              \/ Sets(p, t)
    BY <1>9 DEF UpdateVersion
  <2>3. /\ Complete(Mine(p)) /\ Mine(p).versions # <<>>
        /\ \A k \in DOMAIN Mine(p).versions : Mine(p).versions[k] \in {v, SchemaVersion}
    BY <2>1, <2>2 DEF OfStore, Built, Read
  <2>4. CASE v = SchemaVersion /\ UNCHANGED store
    <3>1. Mine(p)' = Mine(p)
      BY <2>1, <2>4 DEF Mine
    <3> QED BY <2>1, <2>3, <2>4, <3>1 DEF OfStore, Built, Read, OpenPlaces, AllCurrent
  <2>5. CASE Sets(p, t)
    <3>1. /\ t \in Database /\ Sound(t) /\ Advances(Mine(p), t)
          /\ t.versions # <<>> /\ AllCurrent(t)
      BY <1>2, <2>1, <2>2, <2>3, VersionsRaised
    <3> HIDE DEF t
    <3>2. Mine(p)' = t
      BY <1>2, <2>1, <2>5, <3>1, SetsStep DEF Mine
    <3>3. Complete(t)
      BY <1>2, <2>1, <2>3, <3>1, CompleteStays
    <3> QED BY <2>1, <3>1, <3>2, <3>3 DEF OfStore, Built, Read, OpenPlaces
  <2> QED BY <2>2, <2>4, <2>5
<1>10. CASE CloseStore(p)
  BY <1>10 DEF CloseStore, Ends, Types, StoreTypes, OfStore, Built, Read, OpenPlaces
<1> QED
  <2>1. InitSteps(p) \/ VerifySteps(p) \/ AppendSteps(p) \/ Start(p) \/ StartOpen(p) \/ MakeDb(p)
          => held[p] = NoStore
    BY DEF InitSteps, LookFinds, LookMisses, Make, MakeRefused, Open, OpenRefused, Fill, Initialized,
           VerifySteps, Inspect, VerifiedOk, VerifyFails, AppendSteps, Ensure, AppendEvent, Goes,
           Start, StartOpen, MakeDb, Begin, OfStore, Built, OpenPlaces
  <2> QED
    BY <2>1, <1>3, <1>4, <1>5, <1>6, <1>7, <1>8, <1>9, <1>10 DEF StepOf, MakeDb, StartOpen
-----------------------------------------------------------------------------
(* What a command has passed stays there.                                  *)

LEMMA ExistsStays ==
  ASSUME IsTree(tree), Grows, NEW x
  PROVE  /\ Exists(x) => Exists(x)'
         /\ Fits(x) => Fits(x)'
         /\ (x \in Path \ {Root} /\ MayHold(x)) => MayHold(x)'
  BY DEF Exists, Fits, MayHold, Grows

LEMMA OthersPlan ==
  ASSUME Types, IsTree(tree), Grows, RunsAlone, NEW p \in Proc, NEW q \in Proc \ {p},
         OfPlan(q), at[q] \in Nat \ {0},
         pc'[q] = pc[q], at'[q] = at[q],
         \/ disturbed'[q] = disturbed[q] /\ (disturbed[q] = "no" /\ pc[q] # "idle" => pc[p] # "idle")
         \/ disturbed[q] = "no" /\ pc[q] # "idle" /\ disturbed'[q] = "raced"
  PROVE  OfPlan(q)'
<1>1. Target(q)' = Target(q)
  BY DEF Target
<1>2. OnTarget(q)'
  BY <1>1 DEF OfPlan, OnTarget
<1>3. pc[q] \in {"open", "fill"} => Target(q) \in Path \ {Root}
  BY PlanEntries, NeededFolder DEF OfPlan, OnTarget, Finished, Path
<1>4. Passed(q)'
  BY <1>1, <1>3, ExistsStays DEF OfPlan, Passed, Exists, Fits
<1>5. Missing(q)'
  BY <1>1 DEF OfPlan, Missing, RunsAlone
<1> QED BY <1>2, <1>4, <1>5 DEF OfPlan
(* The entry it has come to is done.                                       *)
LEMMA MovesOn ==
  ASSUME Types, IsTree(tree), Grows, NEW p \in Proc, OfPlan(p), pc[p] \in InitPlaces,
         Moves(p), disturbed[p] # "removed" => Target(p) \in DOMAIN tree'
  PROVE  OfPlan(p)'
<1>1. pc'[p] = "look" /\ at'[p] = at[p] + 1 /\ at[p] \in Nat \ {0} /\ disturbed' = disturbed
  BY DEF Moves, Types
<1>2. Passed(p)'
  <2>1. SUFFICES ASSUME disturbed[p] # "removed", NEW i \in DOMAIN Plan, i < at[p] + 1
                 PROVE  Plan[i] \in DOMAIN tree'
    BY <1>1 DEF Passed, Exists
  <2>2. i = at[p] \/ i < at[p]
    BY <1>1, <2>1, PlanEntries
  <2>3. CASE i = at[p]
    BY <2>1, <2>3 DEF Target
  <2>4. CASE i < at[p]
    BY <2>1, <2>4 DEF OfPlan, Passed, Exists, Grows
  <2> QED BY <2>2, <2>3, <2>4
<1> QED BY <1>1, <1>2 DEF OfPlan, OnTarget, Missing

LEMMA OwnPlan ==
  ASSUME Types, WorksWhereTold, IsTree(tree), IsTree(tree'), Grows,
         NEW p \in Proc, OfPlan(p), OfStore(p), StepOf(p)
  PROVE  OfPlan(p)'
<1>1. at[p] \in Nat \ {0} /\ pc[p] \in StorePlaces
  BY DEF Types
<1>2. CASE Begins(p)
  <2>1. /\ pc'[p] \in FirstSteps \cup {"mkdir"} /\ at'[p] = 1
    BY <1>2, BeginFrame DEF OfPlan, OnTarget
  <2> QED BY <2>1, PlanEntries DEF FirstSteps, OfPlan, OnTarget, Passed, Missing, InitPlaces
<1>3. CASE Finishes(p)
  <2>1. pc'[p] = "idle" /\ at'[p] = 1 /\ disturbed'[p] = "no"
    BY <1>3, EndFrame DEF Finishes
  <2> QED BY <2>1 DEF OfPlan, OnTarget, Passed, Missing, InitPlaces
<1>4. CASE LookFinds(p)
  BY <1>4, MovesOn DEF LookFinds, Exists, InitPlaces, Grows
<1>5. CASE LookMisses(p)
  <2>1. /\ pc[p] = "look" /\ pc'[p] = "make" /\ UNCHANGED <<at, disturbed, tree>>
        /\ at[p] <= Len(Plan) /\ ~Exists(Target(p))
    BY <1>1, <1>5, PlanEntries DEF LookMisses, Goes, Finished, Types
  <2> QED BY <2>1 DEF OfPlan, OnTarget, Passed, Missing, InitPlaces, Target, Exists, Fits
<1>6. CASE Make(p)
  <2>1. pc[p] = "make" /\ MayMakeDir(Needed(p)) /\ tree' = MadeDir(Needed(p))
    BY <1>6 DEF Make
  <2>2. ~Finished(p) /\ Needed(p) \in Folder
    BY <1>1, <2>1, PlanEntries, NeededFolder DEF OfPlan, OnTarget, Finished
  <2>3. /\ Needed(p) \in DOMAIN tree' /\ tree'[Needed(p)].kind = "dir"
        /\ \A x \in DOMAIN tree' \ DOMAIN tree : x \in Folder
    BY <2>1, <2>2, MadeDirEffect
  <2>4. CASE InDirs(Target(p))
    <3>1. Needed(p) = Target(p)
      BY <2>4 DEF Needed
    <3> QED BY <1>6, <2>1, <2>3, <2>4, <3>1, MovesOn DEF Make, InitPlaces
  <2>5. CASE ~InDirs(Target(p))
    <3>1. pc'[p] = "open" /\ UNCHANGED <<at, disturbed>>
      BY <1>6, <2>5 DEF Make, Types
    <3>2. Parent[Target(p)] = Needed(p) /\ Target(p)' = Target(p)
      BY <1>1, <2>2, <2>5, <3>1, NeededFolder DEF Target
    <3>3. MayHold(Target(p))'
      BY <2>3, <3>2 DEF MayHold, Exists
    <3>4. disturbed[p] = "no" => Target(p) \notin DOMAIN tree'
      BY <2>1, <2>3, <2>5 DEF OfPlan, Missing, Exists, Folder
    <3>5. OnTarget(p)' /\ Missing(p)'
      BY <2>1, <2>5, <3>1, <3>2, <3>4 DEF OfPlan, OnTarget, Missing, Exists
    <3>6. Passed(p)'
      BY <2>1, <3>1, <3>3, ExistsStays DEF OfPlan, Passed, InitPlaces
    <3> QED BY <3>5, <3>6 DEF OfPlan
  <2> QED BY <2>4, <2>5
<1>7. CASE Open(p)
  <2>1. pc[p] = "open" /\ tree' = With(Target(p), File(0)) /\ ~InDirs(Target(p))
    BY <1>7 DEF Open, OfPlan, OnTarget
  <2>2. Target(p) \in DOMAIN tree'
    BY <2>1 DEF With
  <2>3. CASE Target(p) \in Logs
    BY <1>7, <2>1, <2>2, <2>3, MovesOn DEF Open, InitPlaces
  <2>4. CASE Target(p) \notin Logs
    <3>1. pc'[p] = "fill" /\ UNCHANGED <<at, disturbed>> /\ Target(p)' = Target(p)
      BY <1>7, <2>4 DEF Open, Types, Target
    <3>2. OnTarget(p)' /\ Missing(p)'
      BY <2>1, <2>4, <3>1 DEF OfPlan, OnTarget, Missing
    <3>3. Passed(p)'
      BY <2>1, <2>2, <3>1, ExistsStays DEF OfPlan, Passed, InitPlaces, Exists
    <3> QED BY <3>2, <3>3 DEF OfPlan
  <2> QED BY <2>3, <2>4
<1>8. CASE Fill(p)
  <2>1. pc[p] = "fill" /\ Moves(p)
    BY <1>8 DEF Fill
  <2>2. disturbed[p] # "removed" => Target(p) \in DOMAIN tree'
    BY <2>1 DEF OfPlan, Passed, Exists, Grows
  <2> QED BY <2>1, <2>2, MovesOn DEF InitPlaces
<1>9. CASE Inspect(p)
  <2>1. /\ pc[p] = "inspect" /\ pc'[p] = "inspect" /\ at'[p] = at[p] + 1 /\ UNCHANGED <<tree, disturbed>>
        /\ Fits(Target(p))
    BY <1>9 DEF Inspect, Types
  <2>2. \A i \in DOMAIN Plan : i < at[p] + 1 => i < at[p] \/ i = at[p]
    BY <1>1, PlanEntries
  <2> QED BY <1>1, <2>1, <2>2 DEF OfPlan, OnTarget, Passed, Missing, InitPlaces, Target, Fits, Exists
<1>10. CASE \/ Ensure(p) \/ MakeDb(p) \/ Connect(p) \/ CreateTable(p) \/ CreateIndex(p)
            \/ SelectVersion(p) \/ InsertVersion(p) \/ UpdateVersion(p)
  <2>1. /\ pc[p] # "idle"
        /\ pc'[p] \in {"append", "connect", "schema", "select", "stamp", "use"}
        /\ pc'[p] = "connect" => pc[p] = "mkdir" /\ at' = at
    BY <1>10 DEF Ensure, MakeDb, Connect, CreateTable, CreateIndex, SelectVersion, InsertVersion,
                 UpdateVersion, Goes, Types
  <2> QED BY <2>1 DEF OfPlan, OnTarget, Passed, Missing, InitPlaces
<1> QED
  BY <1>2, <1>3, <1>4, <1>5, <1>6, <1>7, <1>8, <1>9, <1>10
  DEF StepOf, Start, StartOpen, Begins, InitSteps, MakeRefused, OpenRefused, Initialized, VerifySteps,
      VerifiedOk, VerifyFails, AppendSteps, AppendEvent, Abandon, CloseStore, Finishes, OfStore, Built,
      OpenPlaces

(* What has been reported stays true.                                      *)
LEMMA ReadyStep ==
  ASSUME Types, WorksWhereTold, IsTree(tree), Grows, ReadyIsWhole,
         ready \in {"no", "present", "verified"},
         NEW p \in Proc, OfPlan(p), OfStore(p), StepOf(p)
  PROVE  ReadyIsWhole' /\ ready' \in {"no", "present", "verified"}
<1>1. \A path \in Planned : (Exists(path) => Exists(path)') /\ (Fits(path) => Fits(path)')
  BY ExistsStays
<1>2. ((\A path \in Planned : Exists(path)) /\ ~Blocked) => ~Blocked'
  BY <1>1 DEF Blocked
<1>3. CASE ready' = ready
  BY <1>1, <1>2, <1>3 DEF ReadyIsWhole
<1>4. CASE ready' # ready
  <2>1. /\ Initialized(p) \/ VerifiedOk(p)
        /\ disturbed[p] # "removed" /\ UNCHANGED tree /\ at[p] > Len(Plan)
    BY <1>4
    DEF StepOf, Start, Begin, StartOpen, InitSteps, LookFinds, LookMisses, Make, MakeRefused, Open,
        OpenRefused, Fill, Initialized, VerifySteps, Inspect, VerifiedOk, VerifyFails, AppendSteps,
        Ensure, AppendEvent, Abandon, MakeDb, Connect, CreateTable, CreateIndex, SelectVersion,
        InsertVersion, UpdateVersion, CloseStore, Reports, Finished, stores, Ends
  <2>2. \A i \in DOMAIN Plan : i < at[p]
    BY <2>1, PlanEntries DEF Types
  <2>3. CASE Initialized(p)
    <3>1. ready' = "present" /\ \A path \in Planned : Exists(path)
      BY <1>4, <2>1, <2>2, <2>3 DEF Initialized, Reports, OfPlan, Passed, InitPlaces, Planned
    <3> QED BY <1>1, <3>1 DEF ReadyIsWhole
  <2>4. CASE VerifiedOk(p)
    <3>1. ready' = "verified" /\ \A path \in Planned : Fits(path)
      BY <1>4, <2>1, <2>2, <2>4 DEF VerifiedOk, Reports, OfPlan, Passed, Planned
    <3> QED BY <1>1, <3>1 DEF ReadyIsWhole, Fits, Blocked
  <2> QED BY <2>1, <2>3, <2>4
<1> QED BY <1>3, <1>4

LEMMA AloneStep ==
  ASSUME Types, WorksWhereTold, RunsAlone, NEW p \in Proc, OfStore(p), StepOf(p)
  PROVE  RunsAlone'
<1>1. CASE Begins(p)
  BY <1>1, BeginFrame DEF RunsAlone, Undisturbed
<1>2. CASE Finishes(p)
  BY <1>2, EndFrame DEF RunsAlone, Finishes
<1>3. CASE GoesOn(p)
  BY <1>3, GoesOnFrame DEF RunsAlone
<1> QED BY <1>1, <1>2, <1>3, StepShape DEF OfStore

-----------------------------------------------------------------------------
(* The invariant.                                                          *)

LEMMA InvTypes ==
  ASSUME IInv
  PROVE  /\ Types /\ StoreTypes /\ StoresSound /\ WorksWhereTold
         /\ IsTree(tree) /\ ready \in {"no", "present", "verified"}
  BY DEF IInv, StoreTypeOK, TypeOK, Types, StoreTypes, StoresSound

LEMMA FirstInode == 1 \in Inode
<1>1. Cardinality(Proc) \in Nat
  BY ProcAssumption, FS_CardinalityType
<1> QED BY <1>1 DEF Inode

LEMMA InvInit ==
  ASSUME StoreInit
  PROVE  IInv
<1>1. /\ tree \in Disks /\ pc = [p \in Proc |-> "idle"] /\ at = [p \in Proc |-> 1]
      /\ starts = 0 /\ disturbed = [p \in Proc |-> "no"] /\ told = [p \in Proc |-> TRUE]
      /\ ready = "no" /\ held = [p \in Proc |-> NoStore] /\ row = [p \in Proc |-> {}]
  BY DEF StoreInit, Init
<1>2. 1 \in Inode
  BY FirstInode
<1>3. /\ link \in Inode \cup {NoStore} /\ store \in [Inode -> Database]
      /\ \A i \in Inode : Sound(store[i])
  BY <1>2, EmptyDatabase, SchemaAssumption DEF StoreInit
<1>4. StoreTypeOK
  <2>1. TypeOK
    BY <1>1, DisksAssumption, StartsAssumption DEF TypeOK
  <2> QED BY <1>1, <1>3, <2>1 DEF StoreTypeOK, StorePlaces, Places
<1>5. ReadyIsWhole /\ WorksWhereTold /\ RunsAlone
  BY <1>1 DEF ReadyIsWhole, WorksWhereTold, RunsAlone
<1>6. \A p \in Proc : OfPlan(p) /\ OfStore(p)
  BY <1>1 DEF OfPlan, OfStore, OnTarget, Passed, Missing, Built, Read, InitPlaces, OpenPlaces
<1> QED BY <1>3, <1>4, <1>5, <1>6 DEF IInv

LEMMA InvStep ==
  ASSUME IInv, NEW p \in Proc, StepOf(p)
  PROVE  IInv'
<1>1. /\ Types /\ StoreTypes /\ StoresSound /\ WorksWhereTold
      /\ IsTree(tree) /\ ready \in {"no", "present", "verified"}
  BY InvTypes
<1>2. /\ RunsAlone /\ ReadyIsWhole
      /\ \A q \in Proc : OfPlan(q) /\ OfStore(q) /\ at[q] \in Nat \ {0}
  BY <1>1 DEF IInv, Types
<1>3. IsTree(tree') /\ Grows
  BY StepGrows
<1>4. Begins(p) \/ Finishes(p) \/ GoesOn(p)
  BY <1>1, <1>2, StepShape DEF OfStore
<1>5. Types' /\ WorksWhereTold'
  BY <1>1, <1>4, BeginFrame, EndFrame, GoesOnFrame DEF Finishes
<1>6. StoreTypes' /\ StoresSound'
  BY <1>1, <1>2, StoreStep
<1>7. ReadyIsWhole' /\ ready' \in {"no", "present", "verified"}
  BY <1>1, <1>2, <1>3, ReadyStep
<1>8. StoreTypeOK'
  BY <1>3, <1>5, <1>6, <1>7 DEF StoreTypeOK, TypeOK, Types, StoreTypes
<1>9. RunsAlone'
  BY <1>1, <1>2, AloneStep
<1>10. OfPlan(p)' /\ OfStore(p)'
  BY <1>1, <1>2, <1>3, OwnPlan, OwnOpen DEF OfPlan
<1>11. \A q \in Proc \ {p} : OfPlan(q)' /\ OfStore(q)'
  <2> TAKE q \in Proc \ {p}
  <2>1. pc'[q] = pc[q] /\ at'[q] = at[q]
    BY <1>1, <1>4, BeginFrame, EndFrame, GoesOnFrame DEF Finishes
  <2>2. \/ /\ disturbed'[q] = disturbed[q]
           /\ disturbed[q] = "no" /\ pc[q] # "idle" => pc[p] # "idle"
        \/ disturbed[q] = "no" /\ pc[q] # "idle" /\ disturbed'[q] = "raced"
    <3>1. CASE Begins(p)
      BY <1>1, <3>1, BeginFrame DEF Undisturbed
    <3>2. CASE Finishes(p)
      BY <1>1, <3>2, EndFrame DEF Finishes
    <3>3. CASE GoesOn(p)
      BY <1>1, <3>3, GoesOnFrame
    <3> QED BY <1>4, <3>1, <3>2, <3>3
  <2>3. OfPlan(q)'
    BY <1>1, <1>2, <1>3, <2>1, <2>2, OthersPlan
  <2>4. OfStore(q)'
    BY <1>1, <1>2, <2>1, OthersOpen
  <2> QED BY <2>3, <2>4
<1>12. \A q \in Proc : OfPlan(q)' /\ OfStore(q)'
  BY <1>10, <1>11
<1> QED BY <1>5, <1>6, <1>7, <1>8, <1>9, <1>12 DEF IInv, StoresSound

(* db/ is deleted: whoever is under way no longer counts as undisturbed,   *)
(* and keeps the file it has open.                                         *)
LEMMA DisposeEffect ==
  ASSUME IInv, DisposeStore
  PROVE  IInv' /\ \A f \in Logs : f \in DOMAIN tree => f \in DOMAIN tree' /\ tree'[f] = tree[f]
<1>1. /\ Types /\ StoreTypes /\ StoresSound /\ WorksWhereTold /\ IsTree(tree)
  BY InvTypes
<1>2. /\ tree' = [path \in {x \in DOMAIN tree : Db \notin Chain[x]} |-> tree[path]]
      /\ disturbed' = [p \in Proc |-> IF pc[p] = "idle" THEN disturbed[p] ELSE "removed"]
      /\ ready' = "no" /\ UNCHANGED <<pc, at, starts, told, held, row>>
      /\ link' = NoStore
      /\ store' = [i \in Inode |-> IF i = link /\ \A p \in Proc : held[p] # i
                                   THEN Empty ELSE store[i]]
  BY DEF DisposeStore, DisposeDb
<1>3. IsTree(tree')
  BY <1>1, <1>2 DEF IsTree
<1>4. Types' /\ WorksWhereTold' /\ ReadyIsWhole'
  BY <1>1, <1>2 DEF Types, WorksWhereTold, ReadyIsWhole
<1>5. StoreTypes' /\ StoresSound'
  BY <1>1, <1>2, EmptyDatabase DEF StoreTypes, StoresSound
<1>6. StoreTypeOK'
  BY <1>2, <1>3, <1>4, <1>5 DEF StoreTypeOK, TypeOK, Types, StoreTypes
<1>7. RunsAlone'
  BY <1>2 DEF IInv, RunsAlone
<1>8. \A p \in Proc : OfPlan(p)'
  BY <1>2 DEF IInv, OfPlan, OnTarget, Passed, Missing, InitPlaces, Target
<1>9. \A p \in Proc : OfStore(p)'
  <2> TAKE p \in Proc
  <2>1. held[p] # NoStore => Mine(p)' = Mine(p)
    BY <1>1, <1>2 DEF StoreTypes, Mine
  <2> QED BY <1>2, <2>1 DEF IInv, OfStore, Built, Read, OpenPlaces
<1>10. \A f \in Logs : f \in DOMAIN tree => f \in DOMAIN tree' /\ tree'[f] = tree[f]
  BY <1>2, ChainAssumption
<1> QED BY <1>4, <1>5, <1>6, <1>7, <1>8, <1>9, <1>10 DEF IInv, StoresSound

LEMMA InvNext ==
  ASSUME IInv, [StoreNext]_allVars
  PROVE  IInv'
<1>1. CASE UNCHANGED allVars
  BY <1>1
  DEF allVars, vars, stores, IInv, StoreTypeOK, TypeOK, ReadyIsWhole, WorksWhereTold, RunsAlone, OfPlan,
      OfStore, OnTarget, Passed, Missing, Built, Read, Target, Exists, Fits, MayHold, Blocked, Mine
<1>2. CASE DisposeStore
  BY <1>2, DisposeEffect
<1>3. CASE \E p \in Proc : StepOf(p)
  BY <1>3, InvStep
<1> QED BY <1>1, <1>2, <1>3 DEF StoreNext, StepOf

LEMMA AlwaysInv == Spec => []IInv
<1>1. StoreInit => IInv
  BY InvInit
<1>2. IInv /\ [StoreNext]_allVars => IInv'
  BY InvNext
<1> QED BY <1>1, <1>2, PTL DEF Spec

-----------------------------------------------------------------------------
(* A workspace is what commands have reported of it, whoever initialises   *)
(* it, dies doing so or deletes db/, and a command works in no other       *)
(* workspace than its environment names (init_workspace.ts).               *)
THEOREM ReportedIsThere == Spec => []WorkspaceSound
<1>1. IInv => WorkspaceSound
  BY DEF IInv, WorkspaceSound
<1> QED BY <1>1, AlwaysInv, PTL

(* No command works on half a schema, however many create or migrate the   *)
(* store at once and wherever they die (openProjectionStore).              *)
THEOREM SchemaIsWhole == Spec => []SchemaWhole
<1>1. IInv => SchemaWhole
  BY DEF IInv, SchemaWhole, StampTrue, OpenedCurrent, Sound, OfStore, Built, Read, AllCurrent
<1> QED BY <1>1, AlwaysInv, PTL

(* No step takes an event out of a log (createEventFiles, appendFile).     *)
THEOREM LogsAreKept == Spec => LogsKept
<1>1. IInv /\ [StoreNext]_allVars => [EventsStay]_tree
  <2> SUFFICES ASSUME IInv, [StoreNext]_allVars, tree' # tree, NEW f \in Logs, Exists(f)
               PROVE  f \in DOMAIN tree' /\ tree'[f].size >= tree[f].size
    BY DEF EventsStay
  <2>1. tree[f].size \in Nat
    BY InvTypes DEF IsTree, Entry, Exists
  <2>2. CASE DisposeStore
    BY <2>1, <2>2, DisposeEffect DEF Exists
  <2>3. CASE \E p \in Proc : StepOf(p)
    BY <2>3, StepGrows DEF Grows, Exists
  <2> QED BY <2>2, <2>3 DEF StoreNext, StepOf, allVars, vars
<1> QED BY <1>1, AlwaysInv, PTL DEF Spec, LogsKept

(* An initialisation that runs alone is refused only for an entry of the   *)
(* wrong kind, so that one that was cut off can be repeated.               *)
THEOREM RerunsSucceed == Spec => RerunSucceeds
<1>1. IInv /\ [StoreNext]_allVars =>
        [\A p \in Proc : (disturbed[p] = "no" /\ (MakeRefused(p) \/ OpenRefused(p))) => Blocked]_vars
  <2> SUFFICES ASSUME IInv, NEW p \in Proc, disturbed[p] = "no", MakeRefused(p) \/ OpenRefused(p)
               PROVE  Blocked
    OBVIOUS
  <2>1. OfPlan(p) /\ at[p] \in Nat \ {0} /\ IsTree(tree)
    BY InvTypes DEF IInv, Types
  <2>2. ~Finished(p)
    BY <2>1, PlanEntries DEF MakeRefused, OpenRefused, OfPlan, OnTarget, Finished
  <2>3. CASE MakeRefused(p)
    <3>1. Needed(p) \in Folder
      BY <2>1, <2>2, NeededFolder
    <3>2. PICK x \in Chain[Needed(p)] : Exists(x) /\ tree[x].kind # "dir"
      BY <2>3 DEF MakeRefused, MayMakeDir
    <3>3. x \in Folder
      BY <3>1, <3>2, ChainAssumption DEF Folder, Path
    <3> QED BY <3>2, <3>3 DEF Blocked, Fits, Folder
  <2>4. CASE OpenRefused(p)
    BY <2>1, <2>4 DEF OpenRefused, OfPlan, OnTarget, Passed, Missing
  <2> QED BY <2>3, <2>4
<1> QED BY <1>1, AlwaysInv, PTL DEF Spec, RerunSucceeds

(* The rows of schema_version never disagree, and a version that this code *)
(* does not know is not overwritten (openProjectionStore).                 *)
THEOREM VersionsAreSound == Spec => VersionSound
<1>1. IInv /\ IInv' /\ [StoreNext]_allVars => [RowsAgree' /\ NotDowngraded]_stores
  <2> SUFFICES ASSUME IInv, IInv', [StoreNext]_allVars, stores' # stores
               PROVE  RowsAgree' /\ NotDowngraded
    OBVIOUS
  <2>1. RowsAgree'
    BY DEF IInv, RowsAgree, Sound
  <2>2. NotDowngraded
    <3> SUFFICES ASSUME NEW k \in DOMAIN store[1].versions, link = 1, link' = 1,
                        store[1].versions[k] \notin 1..SchemaVersion
                 PROVE  store'[1].versions[k] = store[1].versions[k]
      BY DEF NotDowngraded
    <3>1. 1 \in Inode /\ NoStore # 1
      BY FirstInode, NoStoreAssumption
    <3>2. PICK p \in Proc : StepOf(p)
      BY <3>1 DEF StoreNext, StepOf, allVars, DisposeStore
    <3>3. OfStore(p) /\ at[p] \in Nat \ {0}
      BY InvTypes DEF IInv, Types
    <3>4. Advances(store[1], store'[1])
      BY <3>1, <3>2, <3>3, InvTypes, StoreStep DEF Dropped
    <3> QED BY <3>4 DEF Advances, Supported
  <2> QED BY <2>1, <2>2
<1> QED BY <1>1, AlwaysInv, PTL DEF Spec, VersionSound
=============================================================================
