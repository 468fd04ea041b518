---------------------------- MODULE IndexSwapProofs ----------------------------
(***************************************************************************)
(* Theorems about IndexSwap, for any number of builders, queries, edits    *)
(* and files and builds of any length, up to the refinement of             *)
(* IndexRegister.                                                          *)
(*                                                                         *)
(* The argument: as long as builds do not overlap, the file that has the   *)
(* temporary name is the one that the running build writes (Building), so  *)
(* that what is renamed is whole and of the version it has scanned; and    *)
(* no build that has begun later began with an older vault than the last   *)
(* successful one (NoOlder), so that the index never falls back.           *)
(***************************************************************************)
EXTENDS IndexSwap, FiniteSetTheorems, TLAPS

(* Inodes are given out one after the other.                               *)
Shape == \E k \in 0..MaxFiles : DOMAIN file = 1..k

(* A command and its sidecar come and go together.                         *)
Pairs ==
  \A p \in Proc :
    /\ sidecar[p] = "none" <=> cli[p] \in {"idle", "append"}
    /\ cli[p] = "append" => p \in Builder
    /\ p \in Querier => sidecar[p] \in {"none", "scan", "read", "answered", "failed"}
    /\ p \in Builder => sidecar[p] # "read"
    /\ p \in Querier /\ result[p] # {} => sidecar[p] = "answered"

(* What a sidecar has open.                                                *)
Handles ==
  \A p \in Proc :
    /\ sidecar[p] = "build" => open[p] \in DOMAIN file /\ file[open[p]].writer = p
    /\ sidecar[p] = "read" => open[p] \in DOMAIN file

Alone == \A b, c \in Builder : cli[b] # "idle" /\ cli[c] # "idle" => b = c

Built(b) == sidecar[b] = "answered" \/ cli[b] = "append"

Building ==
  \A b \in Builder :
    /\ sidecar[b] = "create" => tmp = NoFile
    /\ sidecar[b] = "build" => tmp = open[b] /\ file[open[b]].version = scanned[b]
    /\ sidecar[b] = "swap" => tmp \in DOMAIN file /\ Whole(file[tmp]) /\ file[tmp].version = scanned[b]
    /\ Built(b) => /\ index \in DOMAIN file
                   /\ file[index].version = scanned[b]
                   /\ scanned[b] \in committed

NoOlder ==
  /\ \A b \in Builder :
       /\ cli[b] # "idle" => since <= began[b]
       /\ sidecar[b] \in {"clear", "create", "build", "swap"} \/ Built(b) => began[b] <= scanned[b]
  /\ index \in DOMAIN file => since <= file[index].version

Querying ==
  \A q \in Querier :
    /\ floor[q] <= since
    /\ sidecar[q] = "read" => Whole(file[open[q]]) /\ floor[q] <= file[open[q]].version
    /\ \A f \in result[q] : Whole(f) /\ floor[q] <= f.version

Lone == Alone /\ IndexWhole /\ Building /\ NoOlder /\ Querying /\ indexed \subseteq committed

Recent ==
  /\ since <= vault
  /\ \A p \in Proc : began[p] <= vault /\ scanned[p] <= vault

Results == result \in [Proc -> SUBSET File]

IInv == TypeOK /\ Shape /\ Results /\ Pairs /\ Handles /\ Recent /\ (~crowded => Lone)

LEMMA Kinds ==
  /\ Builder \subseteq Proc /\ Querier \subseteq Proc
  /\ \A p \in Proc : p \in Builder <=> p \notin Querier
  /\ \A b \in Builder : b # Nobody
BY ProcAssumption DEF Proc

LEMMA InitIInv == Init => IInv
<1> SUFFICES ASSUME Init PROVE IInv
  OBVIOUS
<1>1. DOMAIN file = {} /\ {} = 1..0
  BY DEF Init
<1>2. TypeOK
  <2>1. 0 \in Version /\ vault \in Version /\ since \in Version
    BY SizeAssumption DEF Init, Version
  <2>2. /\ cli \in [Proc -> Commands] /\ sidecar \in [Proc -> Sidecars]
        /\ open \in [Proc -> Inode \cup {NoFile}]
    BY DEF Init, Commands, Sidecars
  <2>3. scanned \in [Proc -> Version] /\ began \in [Proc -> Version] /\ floor \in [Proc -> Version]
    BY <2>1 DEF Init
  <2>4. \A q \in Proc : result[q] \subseteq File
    BY DEF Init
  <2>5. indexed \subseteq Version /\ committed \subseteq Version /\ crowded \in BOOLEAN
    BY DEF Init
  <2>6. DOMAIN file \subseteq Inode /\ \A i \in DOMAIN file : file[i] \in File
    BY <1>1
  <2>7. {index, tmp} \subseteq DOMAIN file \cup {NoFile}
    BY DEF Init
  <2> QED BY <2>1, <2>2, <2>3, <2>4, <2>5, <2>6, <2>7 DEF TypeOK
<1>3. Shape
  BY <1>1, SizeAssumption DEF Shape
<1>4. Pairs /\ Handles /\ Recent /\ Results
  BY DEF Init, Pairs, Handles, Recent, Results
<1>5. Lone
  BY <1>1, Kinds DEF Init, Lone, Alone, IndexWhole, Building, Built, NoOlder, Querying
<1> QED
  BY <1>2, <1>3, <1>4, <1>5 DEF IInv

-----------------------------------------------------------------------------
LEMMA EditKeeps ==
  ASSUME IInv, Edit
  PROVE  IInv'
<1>1. /\ vault < MaxEdits /\ vault' = vault + 1
      /\ UNCHANGED <<file, index, tmp, indexed, cli, sidecar, scanned, open,
                     since, began, committed, floor, result, crowded>>
  BY DEF Edit, disk, history
<1>2. TypeOK'
  BY <1>1, SizeAssumption DEF IInv, TypeOK, Version
<1>3. Shape' /\ Pairs' /\ Handles' /\ Results'
  BY <1>1 DEF IInv, Shape, Pairs, Handles, Results
<1>4. Recent'
  BY <1>1 DEF IInv, TypeOK, Version, Recent
<1>5. ~crowded' => Lone'
  BY <1>1 DEF IInv, Lone, Alone, IndexWhole, Building, Built, NoOlder, Querying
<1> QED
  BY <1>2, <1>3, <1>4, <1>5 DEF IInv

LEMMA RequestKeeps ==
  ASSUME IInv, NEW p \in Proc, Request(p)
  PROVE  IInv'
<1>1. /\ cli[p] = "idle"
      /\ cli' = [cli EXCEPT ![p] = "waiting"]
      /\ sidecar' = [sidecar EXCEPT ![p] = "scan"]
      /\ began' = [began EXCEPT ![p] = vault]
      /\ floor' = [floor EXCEPT ![p] = IF p \in Querier THEN since ELSE 0]
      /\ crowded' = (crowded \/ (p \in Builder /\ \E q \in Builder : cli[q] # "idle"))
      /\ UNCHANGED <<vault, file, index, tmp, indexed, scanned, open, since, committed, result>>
  BY DEF Request, disk
<1>2. TypeOK
  BY DEF IInv
<1>3. TypeOK'
  <2>1. crowded' \in BOOLEAN
    BY <1>1
  <2>2. floor' \in [Proc -> Version] /\ began' \in [Proc -> Version]
    BY <1>1, <1>2, SizeAssumption DEF TypeOK, Version
  <2> QED BY <1>1, <1>2, <2>1, <2>2 DEF TypeOK, Commands, Sidecars
<1>4. Shape' /\ Results'
  BY <1>1 DEF IInv, Shape, Results
<1>5. Pairs' /\ Handles'
  BY <1>1, <1>2, Kinds DEF IInv, TypeOK, Pairs, Handles
<1>6. Recent'
  BY <1>1, <1>2 DEF IInv, TypeOK, Version, Recent
<1>7. ASSUME ~crowded' PROVE Lone'
  <2>1. Lone
    BY <1>1, <1>7 DEF IInv
  <2>2. p \in Builder => \A q \in Builder : cli[q] = "idle"
    BY <1>1, <1>7
  <2>3. Alone'
    BY <1>1, <1>2, <2>1, <2>2, Kinds DEF Lone, Alone, TypeOK
  <2>4. IndexWhole' /\ indexed' \subseteq committed'
    BY <1>1, <2>1 DEF Lone, IndexWhole
  <2>5. Building'
    BY <1>1, <1>2, <2>1, Kinds DEF Lone, Building, Built, TypeOK
  <2>6. NoOlder'
    BY <1>1, <1>2, <2>1, Kinds DEF IInv, Recent, Lone, NoOlder, Built, TypeOK
  <2>7. Querying'
    <3>1. p \in Querier => result[p] = {}
      BY <1>1, <1>2, Kinds DEF IInv, Pairs
    <3> QED BY <1>1, <1>2, <2>1, <3>1, Kinds DEF Lone, Querying, TypeOK, Version
  <2> QED BY <2>3, <2>4, <2>5, <2>6, <2>7 DEF Lone
<1> QED
  BY <1>3, <1>4, <1>5, <1>6, <1>7 DEF IInv

-----------------------------------------------------------------------------
(* What becomes of the files when a sidecar lets go of its own: a whole    *)
(* file stays as it is.                                                    *)
LEMMA Released ==
  ASSUME IInv, NEW p \in Proc, Releases(p) \/ UNCHANGED <<file, open>>
  PROVE  /\ DOMAIN file' = DOMAIN file
         /\ open' \in [Proc -> Inode \cup {NoFile}]
         /\ \A q \in Proc : q # p => open'[q] = open[q]
         /\ \A i \in DOMAIN file :
              /\ file'[i] \in File
              /\ file'[i].version = file[i].version
              /\ Whole(file[i]) => file'[i] = file[i]
              /\ file[i].writer # p => file'[i] = file[i]
<1>1. TypeOK
  BY DEF IInv
<1>2. CASE UNCHANGED <<file, open>>
  BY <1>1, <1>2 DEF TypeOK
<1>3. CASE Releases(p)
  <2>1. open' = [open EXCEPT ![p] = NoFile]
    BY <1>3 DEF Releases
  <2>2. file' = [i \in DOMAIN file |-> IF file[i].writer = p
                                      THEN [file[i] EXCEPT !.writer = Nobody]
                                      ELSE file[i]]
    BY <1>3 DEF Releases
  <2>3. ASSUME NEW i \in DOMAIN file
        PROVE  /\ file'[i] \in File
               /\ file'[i].version = file[i].version
               /\ Whole(file[i]) => file'[i] = file[i]
               /\ file[i].writer # p => file'[i] = file[i]
    <3>1. file[i] \in File
      BY <1>1 DEF TypeOK
    <3>2. file'[i] = IF file[i].writer = p THEN [file[i] EXCEPT !.writer = Nobody] ELSE file[i]
      BY <2>2
    <3>3. Nobody # p
      BY ProcAssumption
    <3> QED BY <3>1, <3>2, <3>3 DEF File, Whole
  <2> QED BY <1>1, <2>1, <2>2, <2>3 DEF TypeOK
<1> QED BY <1>2, <1>3

(* A command ends, with or without its sidecar letting go of a file.       *)
LEMMA EndingKeeps ==
  ASSUME IInv, NEW p \in Proc, Ends(p),
         sidecar' = [sidecar EXCEPT ![p] = "none"],
         Releases(p) \/ UNCHANGED <<file, open>>,
         UNCHANGED <<vault, index, tmp, indexed, since, committed, crowded>>
  PROVE  IInv'
<1>1. /\ cli' = [cli EXCEPT ![p] = "idle"]
      /\ scanned' = [scanned EXCEPT ![p] = 0]
      /\ began' = [began EXCEPT ![p] = 0]
      /\ floor' = [floor EXCEPT ![p] = 0]
      /\ result' = [result EXCEPT ![p] = {}]
  BY DEF Ends
<1>2. TypeOK /\ Results /\ Pairs /\ Handles
  BY DEF IInv
<1>3. /\ DOMAIN file' = DOMAIN file
      /\ open' \in [Proc -> Inode \cup {NoFile}]
      /\ \A q \in Proc : q # p => open'[q] = open[q]
      /\ \A i \in DOMAIN file :
              /\ file'[i] \in File
              /\ file'[i].version = file[i].version
              /\ Whole(file[i]) => file'[i] = file[i]
              /\ file[i].writer # p => file'[i] = file[i]
  BY Released
<1>4. 0 \in Version
  BY SizeAssumption DEF Version
<1>5. Results' /\ \A q \in Proc : result'[q] \subseteq File
  BY <1>1, <1>2 DEF Results
<1>6. TypeOK'
  <2>1. cli' \in [Proc -> Commands] /\ sidecar' \in [Proc -> Sidecars]
    BY <1>1, <1>2 DEF TypeOK, Commands, Sidecars
  <2>2. scanned' \in [Proc -> Version] /\ began' \in [Proc -> Version] /\ floor' \in [Proc -> Version]
    BY <1>1, <1>2, <1>4 DEF TypeOK
  <2> QED BY <1>2, <1>3, <1>5, <2>1, <2>2 DEF TypeOK
<1>7. Shape'
  BY <1>3 DEF IInv, Shape
<1>8. Pairs'
  BY <1>1, <1>2 DEF TypeOK, Pairs, Results
<1>9. Handles'
  BY <1>2, <1>3 DEF TypeOK, Handles
<1>10. Recent'
  BY <1>1, <1>2 DEF IInv, TypeOK, Recent, Version
<1>11. ASSUME ~crowded' PROVE Lone'
  <2>1. Lone
    BY <1>11 DEF IInv
  <2>2. Alone'
    BY <1>1, <1>2, <2>1, Kinds DEF TypeOK, Lone, Alone
  <2>3. IndexWhole'
    BY <1>2, <1>3, <2>1 DEF TypeOK, Lone, IndexWhole
  <2>4. Building'
    <3> SUFFICES ASSUME NEW b \in Builder
                 PROVE  /\ sidecar'[b] = "create" => tmp' = NoFile
                        /\ sidecar'[b] = "build" =>
                             tmp' = open'[b] /\ file'[open'[b]].version = scanned'[b]
                        /\ sidecar'[b] = "swap" =>
                             tmp' \in DOMAIN file' /\ Whole(file'[tmp']) /\ file'[tmp'].version = scanned'[b]
                        /\ Built(b)' => /\ index' \in DOMAIN file'
                                        /\ file'[index'].version = scanned'[b]
                                        /\ scanned'[b] \in committed'
      BY DEF Building
    <3>1. CASE b = p
      BY <1>1, <1>2, <3>1, Kinds DEF TypeOK, Built
    <3>2. CASE b # p
      <4>1. /\ cli'[b] = cli[b] /\ sidecar'[b] = sidecar[b] /\ scanned'[b] = scanned[b]
            /\ open'[b] = open[b]
        BY <1>1, <1>2, <1>3, <3>2, Kinds DEF TypeOK
      <4> QED BY <1>2, <1>3, <2>1, <4>1, Kinds DEF Lone, Building, Built, Handles
    <3> QED BY <3>1, <3>2
  <2>5. NoOlder'
    BY <1>1, <1>2, <1>3, <2>1, Kinds DEF TypeOK, Lone, NoOlder, Built
  <2>6. Querying'
    <3> SUFFICES ASSUME NEW q \in Querier
                 PROVE  /\ floor'[q] <= since'
                        /\ sidecar'[q] = "read" =>
                             Whole(file'[open'[q]]) /\ floor'[q] <= file'[open'[q]].version
                        /\ \A f \in result'[q] : Whole(f) /\ floor'[q] <= f.version
      BY DEF Querying
    <3>1. CASE q = p
      BY <1>1, <1>2, <3>1, Kinds DEF TypeOK, Results, Version
    <3>2. CASE q # p
      <4>1. /\ floor'[q] = floor[q] /\ sidecar'[q] = sidecar[q] /\ result'[q] = result[q]
            /\ open'[q] = open[q]
        BY <1>1, <1>2, <1>3, <3>2, Kinds DEF TypeOK, Results
      <4> QED BY <1>2, <1>3, <2>1, <4>1, Kinds DEF Lone, Querying, Handles
    <3> QED BY <3>1, <3>2
  <2> QED BY <2>1, <2>2, <2>3, <2>4, <2>5, <2>6 DEF Lone
<1> QED
  BY <1>5, <1>6, <1>7, <1>8, <1>9, <1>10, <1>11 DEF IInv

(* An operation of a sidecar fails; a builder may delete the temporary     *)
(* file.                                                                   *)
LEMMA FailingKeeps ==
  ASSUME IInv, NEW p \in Proc, Fails(p),
         sidecar[p] \notin {"none", "answered"},
         tmp' = tmp \/ (tmp' = NoFile /\ p \in Builder),
         UNCHANGED <<vault, index, indexed, cli, scanned, history>>
  PROVE  IInv'
<1>1. /\ sidecar' = [sidecar EXCEPT ![p] = "failed"]
      /\ UNCHANGED <<vault, index, indexed, cli, scanned, since, began, committed,
                     floor, result, crowded>>
  BY DEF Fails, history
<1>2. TypeOK /\ Results /\ Pairs /\ Handles
  BY DEF IInv
<1>3. /\ DOMAIN file' = DOMAIN file
      /\ open' \in [Proc -> Inode \cup {NoFile}]
      /\ \A q \in Proc : q # p => open'[q] = open[q]
      /\ \A i \in DOMAIN file :
              /\ file'[i] \in File
              /\ file'[i].version = file[i].version
              /\ Whole(file[i]) => file'[i] = file[i]
              /\ file[i].writer # p => file'[i] = file[i]
  BY Released DEF Fails
<1>4. TypeOK'
  BY <1>1, <1>2, <1>3 DEF TypeOK, Sidecars
<1>5. Shape' /\ Results'
  BY <1>1, <1>3 DEF IInv, Shape, Results
<1>6. Pairs'
  BY <1>1, <1>2 DEF TypeOK, Pairs
<1>7. Handles'
  BY <1>1, <1>2, <1>3 DEF TypeOK, Handles
<1>8. Recent'
  BY <1>1 DEF IInv, Recent
<1>9. ASSUME ~crowded' PROVE Lone'
  <2>1. Lone
    BY <1>1, <1>9 DEF IInv
  <2>2. Alone' /\ indexed' \subseteq committed'
    BY <1>1, <2>1 DEF Lone, Alone
  <2>3. IndexWhole'
    BY <1>1, <1>2, <1>3, <2>1 DEF TypeOK, Lone, IndexWhole
  <2>4. Building'
    <3> SUFFICES ASSUME NEW b \in Builder
                 PROVE  /\ sidecar'[b] = "create" => tmp' = NoFile
                        /\ sidecar'[b] = "build" =>
                             tmp' = open'[b] /\ file'[open'[b]].version = scanned'[b]
                        /\ sidecar'[b] = "swap" =>
                             tmp' \in DOMAIN file' /\ Whole(file'[tmp']) /\ file'[tmp'].version = scanned'[b]
                        /\ Built(b)' => /\ index' \in DOMAIN file'
                                        /\ file'[index'].version = scanned'[b]
                                        /\ scanned'[b] \in committed'
      BY DEF Building
    <3>1. CASE b = p
      BY <1>1, <1>2, <3>1, Kinds DEF TypeOK, Built, Pairs
    <3>2. CASE b # p
      <4>1. sidecar'[b] = sidecar[b] /\ open'[b] = open[b]
        BY <1>1, <1>2, <1>3, <3>2, Kinds DEF TypeOK
      <4>2. sidecar[b] \in {"build", "swap"} => tmp' = tmp
        BY <1>2, <2>1, <3>2, Kinds DEF Lone, Alone, Pairs
      <4> QED BY <1>1, <1>2, <1>3, <2>1, <4>1, <4>2, Kinds DEF Lone, Building, Built, Handles
    <3> QED BY <3>1, <3>2
  <2>5. NoOlder'
    BY <1>1, <1>2, <1>3, <2>1, Kinds DEF TypeOK, Lone, NoOlder, Built
  <2>6. Querying'
    <3> SUFFICES ASSUME NEW q \in Querier
                 PROVE  /\ floor'[q] <= since'
                        /\ sidecar'[q] = "read" =>
                             Whole(file'[open'[q]]) /\ floor'[q] <= file'[open'[q]].version
                        /\ \A f \in result'[q] : Whole(f) /\ floor'[q] <= f.version
      BY DEF Querying
    <3>1. sidecar'[q] = "read" => sidecar[q] = "read" /\ open'[q] = open[q]
      BY <1>1, <1>2, <1>3, Kinds DEF TypeOK
    <3> QED BY <1>1, <1>2, <1>3, <2>1, <3>1, Kinds DEF Lone, Querying, Handles
  <2> QED BY <1>1, <2>1, <2>2, <2>3, <2>4, <2>5, <2>6 DEF Lone
<1> QED
  BY <1>4, <1>5, <1>6, <1>7, <1>8, <1>9 DEF IInv

-----------------------------------------------------------------------------
(* Steps that touch no file.                                               *)

LEMMA AnsweredKeeps ==
  ASSUME IInv, NEW p \in Builder, cli[p] = "waiting", SidecarGoes(p, "answered", "none"),
         cli' = [cli EXCEPT ![p] = "append"],
         UNCHANGED <<vault, disk, indexed, open, since, committed, crowded,
                     scanned, began, floor, result>>
  PROVE  IInv'
<1>1. /\ sidecar[p] = "answered"
      /\ sidecar' = [sidecar EXCEPT ![p] = "none"]
      /\ UNCHANGED <<vault, file, index, tmp, indexed, open, since, committed, crowded,
                     scanned, began, floor, result>>
  BY DEF SidecarGoes, disk
<1>2. TypeOK /\ Pairs /\ Handles
  BY DEF IInv
<1>3. TypeOK'
  BY <1>1, <1>2 DEF TypeOK, Commands, Sidecars
<1>4. Shape' /\ Results' /\ Recent'
  BY <1>1 DEF IInv, Shape, Results, Recent
<1>5. Pairs' /\ Handles'
  BY <1>1, <1>2, Kinds DEF TypeOK, Pairs, Handles
<1>6. ASSUME ~crowded' PROVE Lone'
  <2>1. Lone
    BY <1>1, <1>6 DEF IInv
  <2>2. Alone' /\ IndexWhole' /\ indexed' \subseteq committed'
    BY <1>1, <1>2, <2>1, Kinds DEF TypeOK, Lone, Alone, IndexWhole
  <2>3. Building' /\ NoOlder'
    BY <1>1, <1>2, <2>1, Kinds DEF TypeOK, Lone, Building, NoOlder, Built
  <2>4. Querying'
    BY <1>1, <1>2, <2>1, Kinds DEF TypeOK, Lone, Querying
  <2> QED BY <2>2, <2>3, <2>4 DEF Lone
<1> QED
  BY <1>3, <1>4, <1>5, <1>6 DEF IInv

LEMMA TimeoutKeeps ==
  ASSUME IInv, NEW p \in Proc, Timeout(p)
  PROVE  IInv'
<1>1. /\ cli[p] = "waiting"
      /\ cli' = [cli EXCEPT ![p] = "closing"]
      /\ UNCHANGED <<vault, file, index, tmp, indexed, sidecar, scanned, open,
                     since, began, committed, floor, result, crowded>>
  BY DEF Timeout, disk, history
<1>2. TypeOK /\ Pairs /\ Handles
  BY DEF IInv
<1>3. TypeOK'
  BY <1>1, <1>2 DEF TypeOK, Commands
<1>4. Shape' /\ Results' /\ Recent'
  BY <1>1 DEF IInv, Shape, Results, Recent
<1>5. Pairs' /\ Handles'
  BY <1>1, <1>2 DEF TypeOK, Pairs, Handles
<1>6. ASSUME ~crowded' PROVE Lone'
  <2>1. Lone
    BY <1>1, <1>6 DEF IInv
  <2>2. Alone' /\ IndexWhole' /\ indexed' \subseteq committed'
    BY <1>1, <1>2, <2>1, Kinds DEF TypeOK, Lone, Alone, IndexWhole
  <2>3. Building' /\ NoOlder'
    BY <1>1, <1>2, <2>1, Kinds DEF TypeOK, Lone, Building, NoOlder, Built
  <2>4. Querying'
    BY <1>1, <2>1 DEF Lone, Querying
  <2> QED BY <2>2, <2>3, <2>4 DEF Lone
<1> QED
  BY <1>3, <1>4, <1>5, <1>6 DEF IInv

LEMMA AppendKeeps ==
  ASSUME IInv, NEW p \in Builder, AppendIndexed(p)
  PROVE  IInv'
<1>1. /\ cli[p] = "append"
      /\ cli' = [cli EXCEPT ![p] = "idle"]
      /\ scanned' = [scanned EXCEPT ![p] = 0]
      /\ began' = [began EXCEPT ![p] = 0]
      /\ floor' = [floor EXCEPT ![p] = 0]
      /\ result' = [result EXCEPT ![p] = {}]
      /\ \/ /\ indexed' = indexed \cup {scanned[p]}
            /\ since' = IF began[p] > since THEN began[p] ELSE since
         \/ indexed' = indexed /\ since' = since
      /\ UNCHANGED <<vault, file, index, tmp, sidecar, open, committed, crowded>>
  BY DEF AppendIndexed, Ends, disk
<1>2. TypeOK /\ Results /\ Pairs /\ Handles
  BY DEF IInv
<1>3. since' \in Version /\ since' >= since /\ since' \in {since, began[p]}
  BY <1>1, <1>2, Kinds DEF TypeOK, Version
<1>4. Results' /\ \A q \in Proc : result'[q] \subseteq File
  BY <1>1, <1>2 DEF Results
<1>5. TypeOK'
  <2>1. 0 \in Version
    BY SizeAssumption DEF Version
  <2>2. scanned' \in [Proc -> Version] /\ began' \in [Proc -> Version] /\ floor' \in [Proc -> Version]
    BY <1>1, <1>2, <2>1 DEF TypeOK
  <2>3. indexed' \subseteq Version
    BY <1>1, <1>2, Kinds DEF TypeOK
  <2> QED BY <1>1, <1>2, <1>3, <1>4, <2>2, <2>3 DEF TypeOK, Commands
<1>6. Shape' /\ Handles'
  BY <1>1 DEF IInv, Shape, Handles
<1>7. Pairs'
  BY <1>1, <1>2, Kinds DEF TypeOK, Pairs, Results
<1>8. Recent'
  BY <1>1, <1>2, <1>3, Kinds DEF IInv, TypeOK, Recent, Version
<1>9. ASSUME ~crowded' PROVE Lone'
  <2>1. Lone
    BY <1>1, <1>9 DEF IInv
  <2>2. Built(p) /\ scanned[p] \in committed /\ index \in DOMAIN file
        /\ file[index].version = scanned[p] /\ began[p] <= scanned[p]
    BY <1>1, <2>1 DEF Lone, Building, NoOlder, Built
  <2>3. \A b \in Builder : b # p => cli[b] = "idle"
    BY <1>1, <2>1 DEF Lone, Alone
  <2>4. Alone' /\ IndexWhole' /\ indexed' \subseteq committed'
    BY <1>1, <1>2, <2>1, <2>2, Kinds DEF TypeOK, Lone, Alone, IndexWhole
  <2>5. Building'
    BY <1>1, <1>2, <2>1, <2>3, Kinds DEF TypeOK, Lone, Building, Built, Pairs
  <2>6. NoOlder'
    BY <1>1, <1>2, <1>3, <2>1, <2>2, <2>3, Kinds DEF TypeOK, Lone, NoOlder, Built, Pairs, Version, File
  <2>7. Querying'
    BY <1>1, <1>2, <1>3, <2>1, Kinds DEF TypeOK, Results, Lone, Querying, Version
  <2> QED BY <2>4, <2>5, <2>6, <2>7 DEF Lone
<1> QED
  BY <1>4, <1>5, <1>6, <1>7, <1>8, <1>9 DEF IInv

LEMMA ScanKeeps ==
  ASSUME IInv, NEW p \in Builder, Scan(p)
  PROVE  IInv'
<1>1. /\ sidecar[p] = "scan" /\ sidecar' = [sidecar EXCEPT ![p] = "clear"]
      /\ scanned' = [scanned EXCEPT ![p] = vault]
      /\ UNCHANGED <<vault, file, index, tmp, indexed, cli, open,
                     since, began, committed, floor, result, crowded>>
  BY DEF Scan, SidecarGoes, disk, history
<1>2. TypeOK /\ Pairs /\ Handles /\ Recent
  BY DEF IInv
<1>3. TypeOK'
  BY <1>1, <1>2 DEF TypeOK, Sidecars
<1>4. Shape' /\ Results'
  BY <1>1 DEF IInv, Shape, Results
<1>5. Pairs' /\ Handles'
  BY <1>1, <1>2, Kinds DEF TypeOK, Pairs, Handles
<1>6. Recent'
  BY <1>1, <1>2 DEF TypeOK, Version, Recent
<1>7. ASSUME ~crowded' PROVE Lone'
  <2>1. Lone
    BY <1>1, <1>7 DEF IInv
  <2>2. Alone' /\ IndexWhole' /\ indexed' \subseteq committed'
    BY <1>1, <2>1 DEF Lone, Alone, IndexWhole
  <2>3. Building'
    BY <1>1, <1>2, <2>1, Kinds DEF TypeOK, Lone, Building, Built, Pairs
  <2>4. NoOlder'
    BY <1>1, <1>2, <2>1, Kinds DEF TypeOK, Lone, NoOlder, Built, Pairs, Recent
  <2>5. Querying'
    BY <1>1, <1>2, <2>1, Kinds DEF TypeOK, Lone, Querying
  <2> QED BY <2>2, <2>3, <2>4, <2>5 DEF Lone
<1> QED
  BY <1>3, <1>4, <1>5, <1>6, <1>7 DEF IInv

LEMMA OpenKeeps ==
  ASSUME IInv, NEW p \in Proc, OpenIndex(p)
  PROVE  IInv'
<1>1. /\ p \in Querier /\ index # NoFile
      /\ sidecar[p] = "scan" /\ sidecar' = [sidecar EXCEPT ![p] = "read"]
      /\ open' = [open EXCEPT ![p] = index]
      /\ UNCHANGED <<vault, file, index, tmp, indexed, cli, scanned,
                     since, began, committed, floor, result, crowded>>
  BY DEF OpenIndex, SidecarGoes, disk, history
<1>2. TypeOK /\ Pairs /\ Handles
  BY DEF IInv
<1>3. index \in DOMAIN file
  BY <1>1, <1>2 DEF TypeOK
<1>4. TypeOK'
  BY <1>1, <1>2, <1>3 DEF TypeOK, Sidecars
<1>5. Shape' /\ Results' /\ Recent'
  BY <1>1 DEF IInv, Shape, Results, Recent
<1>6. Pairs' /\ Handles'
  BY <1>1, <1>2, <1>3, Kinds DEF TypeOK, Pairs, Handles
<1>7. ASSUME ~crowded' PROVE Lone'
  <2>1. Lone
    BY <1>1, <1>7 DEF IInv
  <2>2. Alone' /\ IndexWhole' /\ indexed' \subseteq committed'
    BY <1>1, <2>1 DEF Lone, Alone, IndexWhole
  <2>3. Building' /\ NoOlder'
    BY <1>1, <1>2, <2>1, Kinds DEF TypeOK, Lone, Building, NoOlder, Built
  <2>4. Whole(file[index]) /\ floor[p] <= file[index].version
    <3>1. floor[p] <= since /\ since <= file[index].version
      BY <1>1, <1>3, <2>1 DEF Lone, Querying, NoOlder
    <3>2. floor[p] \in Nat /\ since \in Nat /\ file[index].version \in Nat
      BY <1>2, <1>3 DEF TypeOK, Version, File
    <3> QED BY <1>1, <2>1, <3>1, <3>2 DEF Lone, IndexWhole
  <2>5. Querying'
    BY <1>1, <1>2, <2>1, <2>4, Kinds DEF TypeOK, Lone, Querying
  <2> QED BY <2>2, <2>3, <2>5 DEF Lone
<1> QED
  BY <1>4, <1>5, <1>6, <1>7 DEF IInv

LEMMA AnswerKeeps ==
  ASSUME IInv, NEW p \in Proc, Answer(p)
  PROVE  IInv'
<1>1. /\ sidecar[p] = "read" /\ sidecar' = [sidecar EXCEPT ![p] = "answered"]
      /\ result' = [result EXCEPT ![p] = {file[open[p]]}]
      /\ open' = [open EXCEPT ![p] = NoFile]
      /\ UNCHANGED <<vault, file, index, tmp, indexed, cli, scanned,
                     since, began, committed, floor, crowded>>
  BY DEF Answer, SidecarGoes, disk
<1>2. TypeOK /\ Results /\ Pairs /\ Handles
  BY DEF IInv
<1>3. p \in Querier /\ open[p] \in DOMAIN file /\ file[open[p]] \in File
  BY <1>1, <1>2, Kinds DEF TypeOK, Pairs, Handles
<1>4. Results' /\ \A q \in Proc : result'[q] \subseteq File
  BY <1>1, <1>2, <1>3 DEF Results
<1>5. TypeOK'
  BY <1>1, <1>2, <1>4 DEF TypeOK, Sidecars
<1>6. Shape' /\ Recent'
  BY <1>1 DEF IInv, Shape, Recent
<1>7. Pairs' /\ Handles'
  BY <1>1, <1>2, <1>3, Kinds DEF TypeOK, Results, Pairs, Handles
<1>8. ASSUME ~crowded' PROVE Lone'
  <2>1. Lone
    BY <1>1, <1>8 DEF IInv
  <2>2. Alone' /\ IndexWhole' /\ indexed' \subseteq committed'
    BY <1>1, <2>1 DEF Lone, Alone, IndexWhole
  <2>3. Building' /\ NoOlder'
    BY <1>1, <1>2, <1>3, <2>1, Kinds DEF TypeOK, Lone, Building, NoOlder, Built
  <2>4. Querying'
    BY <1>1, <1>2, <1>3, <2>1, Kinds DEF TypeOK, Results, Lone, Querying
  <2> QED BY <2>2, <2>3, <2>4 DEF Lone
<1> QED
  BY <1>4, <1>5, <1>6, <1>7, <1>8 DEF IInv

-----------------------------------------------------------------------------
(* Steps of a build.                                                       *)

LEMMA ClearKeeps ==
  ASSUME IInv, NEW p \in Builder, ClearTmp(p)
  PROVE  IInv'
<1>1. /\ sidecar[p] = "clear" /\ sidecar' = [sidecar EXCEPT ![p] = "create"]
      /\ tmp' = NoFile
      /\ UNCHANGED <<vault, file, index, indexed, cli, scanned, open,
                     since, began, committed, floor, result, crowded>>
  BY DEF ClearTmp, SidecarGoes, history
<1>2. TypeOK /\ Pairs /\ Handles
  BY DEF IInv
<1>3. TypeOK'
  BY <1>1, <1>2 DEF TypeOK, Sidecars
<1>4. Shape' /\ Results' /\ Recent'
  BY <1>1 DEF IInv, Shape, Results, Recent
<1>5. Pairs' /\ Handles'
  BY <1>1, <1>2, Kinds DEF TypeOK, Pairs, Handles
<1>6. ASSUME ~crowded' PROVE Lone'
  <2>1. Lone
    BY <1>1, <1>6 DEF IInv
  <2>2. \A b \in Builder : b # p => cli[b] = "idle" /\ sidecar[b] = "none"
    BY <1>1, <1>2, <2>1, Kinds DEF Lone, Alone, Pairs
  <2>3. cli[p] # "append"
    BY <1>1, <1>2, Kinds DEF Pairs
  <2>4. Alone' /\ IndexWhole' /\ indexed' \subseteq committed'
    BY <1>1, <2>1 DEF Lone, Alone, IndexWhole
  <2>5. Building'
    BY <1>1, <1>2, <2>1, <2>2, <2>3, Kinds DEF TypeOK, Lone, Building, Built
  <2>6. NoOlder'
    BY <1>1, <1>2, <2>1, Kinds DEF TypeOK, Lone, NoOlder, Built
  <2>7. Querying'
    BY <1>1, <1>2, <2>1, Kinds DEF TypeOK, Lone, Querying
  <2> QED BY <2>4, <2>5, <2>6, <2>7 DEF Lone
<1> QED
  BY <1>3, <1>4, <1>5, <1>6 DEF IInv

(* A file that is created is a new one.                                    *)
LEMMA NextInode ==
  ASSUME IInv, NEW i \in Inode, i = Cardinality(DOMAIN file) + 1
  PROVE  i \notin DOMAIN file /\ DOMAIN file \cup {i} = 1..i /\ i \in 0..MaxFiles
<1>1. PICK k \in 0..MaxFiles : DOMAIN file = 1..k
  BY DEF IInv, Shape
<1>2. k \in Nat
  BY <1>1, SizeAssumption
<1>3. Cardinality(1..k) = k
  BY <1>2, FS_Interval
<1>4. i = k + 1 /\ i \in 0..MaxFiles
  BY <1>1, <1>3, SizeAssumption DEF Inode
<1> QED
  BY <1>1, <1>2, <1>4

LEMMA CreateKeeps ==
  ASSUME IInv, NEW p \in Builder, CreateTmp(p)
  PROVE  IInv'
<1>1. PICK i \in Inode :
        /\ i = Cardinality(DOMAIN file) + 1
        /\ file' = [x \in DOMAIN file \cup {i} |->
                       IF x = i THEN [version |-> scanned[p], built |-> 0, writer |-> p]
                       ELSE file[x]]
        /\ tmp' = i
        /\ open' = [open EXCEPT ![p] = i]
  BY DEF CreateTmp
<1>2. /\ sidecar[p] = "create" /\ sidecar' = [sidecar EXCEPT ![p] = "build"]
      /\ UNCHANGED <<vault, index, indexed, cli, scanned,
                     since, began, committed, floor, result, crowded>>
  BY DEF CreateTmp, SidecarGoes, history
<1>3. TypeOK /\ Pairs /\ Handles
  BY DEF IInv
<1>4. i \notin DOMAIN file /\ Shape'
  <2>1. i \notin DOMAIN file /\ DOMAIN file \cup {i} = 1..i /\ i \in 0..MaxFiles
    BY <1>1, NextInode
  <2>2. DOMAIN file' = 1..i
    BY <1>1, <2>1
  <2> QED BY <2>1, <2>2 DEF Shape
<1>5. /\ DOMAIN file' = DOMAIN file \cup {i}
      /\ file'[i] = [version |-> scanned[p], built |-> 0, writer |-> p]
      /\ \A x \in DOMAIN file : file'[x] = file[x]
  BY <1>1, <1>4
<1>6. TypeOK'
  <2>1. file'[i] \in File
    BY <1>3, <1>5, SizeAssumption, Kinds DEF TypeOK, File
  <2> QED BY <1>1, <1>2, <1>3, <1>5, <2>1, Kinds DEF TypeOK, Sidecars
<1>7. Results' /\ Recent'
  BY <1>2 DEF IInv, Results, Recent
<1>8. Pairs'
  BY <1>2, <1>3, Kinds DEF TypeOK, Pairs
<1>9. Handles'
  BY <1>1, <1>2, <1>3, <1>5, Kinds DEF TypeOK, Handles
<1>10. ASSUME ~crowded' PROVE Lone'
  <2>1. Lone
    BY <1>2, <1>10 DEF IInv
  <2>2. \A b \in Builder : b # p => cli[b] = "idle" /\ sidecar[b] = "none"
    BY <1>2, <1>3, <2>1, Kinds DEF Lone, Alone, Pairs
  <2>3. cli[p] # "append"
    BY <1>2, <1>3, Kinds DEF Pairs
  <2>4. Alone' /\ indexed' \subseteq committed'
    BY <1>2, <2>1 DEF Lone, Alone
  <2>5. IndexWhole'
    BY <1>2, <1>3, <1>5, <2>1 DEF TypeOK, Lone, IndexWhole
  <2>6. Building'
    BY <1>1, <1>2, <1>3, <1>5, <2>2, <2>3, Kinds DEF TypeOK, Building, Built
  <2>7. NoOlder'
    BY <1>2, <1>3, <1>4, <1>5, <2>1, Kinds DEF TypeOK, Lone, NoOlder, Built, Inode, NoFile
  <2>8. Querying'
    BY <1>1, <1>2, <1>3, <1>5, <2>1, Kinds DEF TypeOK, Lone, Querying, Handles
  <2> QED BY <2>4, <2>5, <2>6, <2>7, <2>8 DEF Lone
<1> QED
  BY <1>4, <1>6, <1>7, <1>8, <1>9, <1>10 DEF IInv

LEMMA WriteKeeps ==
  ASSUME IInv, NEW p \in Builder, Write(p)
  PROVE  IInv'
<1>1. /\ sidecar[p] = "build" /\ file[open[p]].built < MaxSteps
      /\ file' = [file EXCEPT ![open[p]].built = @ + 1]
      /\ UNCHANGED <<vault, index, tmp, indexed, cli, sidecar, scanned, open,
                     since, began, committed, floor, result, crowded>>
  BY DEF Write, history
<1>2. TypeOK /\ Pairs /\ Handles
  BY DEF IInv
<1>3. /\ open[p] \in DOMAIN file /\ file[open[p]].writer = p
      /\ file[open[p]] \in File
  BY <1>1, <1>2, Kinds DEF TypeOK, Handles
<1>4. /\ DOMAIN file' = DOMAIN file
      /\ file'[open[p]] = [file[open[p]] EXCEPT !.built = @ + 1]
      /\ \A i \in DOMAIN file : i # open[p] => file'[i] = file[i]
  BY <1>1, <1>3
<1>5. /\ file'[open[p]] \in File
      /\ file'[open[p]].version = file[open[p]].version
      /\ file'[open[p]].writer = p
  <2>1. file[open[p]].built + 1 \in 0..MaxSteps
    BY <1>1, <1>3, SizeAssumption DEF File
  <2> QED BY <1>3, <1>4, <2>1 DEF File
<1>6. \A i \in DOMAIN file : file[i].writer # p => file'[i] = file[i]
  BY <1>3, <1>4
<1>7. TypeOK'
  BY <1>1, <1>2, <1>4, <1>5 DEF TypeOK
<1>8. Shape' /\ Results' /\ Recent' /\ Pairs'
  BY <1>1, <1>4 DEF IInv, Shape, Results, Recent, Pairs
<1>9. Handles'
  BY <1>1, <1>2, <1>4, <1>5, Kinds DEF TypeOK, Handles
<1>10. ASSUME ~crowded' PROVE Lone'
  <2>1. Lone
    BY <1>1, <1>10 DEF IInv
  <2>2. \A b \in Builder : b # p => cli[b] = "idle" /\ sidecar[b] = "none"
    BY <1>1, <1>2, <2>1, Kinds DEF Lone, Alone, Pairs
  <2>3. cli[p] # "append"
    BY <1>1, <1>2, Kinds DEF Pairs
  <2>4. p # Nobody
    BY Kinds
  <2>5. Alone' /\ indexed' \subseteq committed'
    BY <1>1, <2>1 DEF Lone, Alone
  <2>6. IndexWhole'
    BY <1>1, <1>2, <1>6, <2>1, <2>4 DEF TypeOK, Lone, IndexWhole, Whole
  <2>7. Building'
    BY <1>1, <1>4, <1>5, <2>1, <2>2, <2>3 DEF Lone, Building, Built
  <2>8. NoOlder'
    BY <1>1, <1>4, <1>5, <2>1 DEF Lone, NoOlder, Built
  <2>9. Querying'
    BY <1>1, <1>2, <1>6, <2>1, <2>4, Kinds DEF Lone, Querying, Handles, Whole
  <2> QED BY <2>5, <2>6, <2>7, <2>8, <2>9 DEF Lone
<1> QED
  BY <1>7, <1>8, <1>9, <1>10 DEF IInv

LEMMA CloseKeeps ==
  ASSUME IInv, NEW p \in Builder, CloseFile(p)
  PROVE  IInv'
<1>1. /\ sidecar[p] = "build" /\ sidecar' = [sidecar EXCEPT ![p] = "swap"]
      /\ file[open[p]].built = MaxSteps
      /\ file' = [file EXCEPT ![open[p]].writer = Nobody]
      /\ open' = [open EXCEPT ![p] = NoFile]
      /\ UNCHANGED <<vault, index, tmp, indexed, cli, scanned,
                     since, began, committed, floor, result, crowded>>
  BY DEF CloseFile, SidecarGoes, history
<1>2. TypeOK /\ Pairs /\ Handles
  BY DEF IInv
<1>3. /\ open[p] \in DOMAIN file /\ file[open[p]].writer = p
      /\ file[open[p]] \in File
  BY <1>1, <1>2, Kinds DEF TypeOK, Handles
<1>4. /\ DOMAIN file' = DOMAIN file
      /\ file'[open[p]] = [file[open[p]] EXCEPT !.writer = Nobody]
      /\ \A i \in DOMAIN file : i # open[p] => file'[i] = file[i]
  BY <1>1, <1>3
<1>5. /\ file'[open[p]] \in File
      /\ file'[open[p]].version = file[open[p]].version
      /\ Whole(file'[open[p]])
  BY <1>1, <1>3, <1>4 DEF File, Whole
<1>6. \A i \in DOMAIN file : file[i].writer # p => file'[i] = file[i]
  BY <1>3, <1>4
<1>7. TypeOK'
  BY <1>1, <1>2, <1>4, <1>5 DEF TypeOK, Sidecars
<1>8. Shape' /\ Results' /\ Recent'
  BY <1>1, <1>4 DEF IInv, Shape, Results, Recent
<1>9. Pairs'
  BY <1>1, <1>2, Kinds DEF TypeOK, Pairs
<1>10. Handles'
  BY <1>1, <1>2, <1>4, <1>6, Kinds DEF TypeOK, Handles
<1>11. ASSUME ~crowded' PROVE Lone'
  <2>1. Lone
    BY <1>1, <1>11 DEF IInv
  <2>2. \A b \in Builder : b # p => cli[b] = "idle" /\ sidecar[b] = "none"
    BY <1>1, <1>2, <2>1, Kinds DEF Lone, Alone, Pairs
  <2>3. cli[p] # "append"
    BY <1>1, <1>2, Kinds DEF Pairs
  <2>4. p # Nobody
    BY Kinds
  <2>5. Alone' /\ indexed' \subseteq committed'
    BY <1>1, <2>1 DEF Lone, Alone
  <2>6. IndexWhole'
    BY <1>1, <1>2, <1>6, <2>1, <2>4 DEF TypeOK, Lone, IndexWhole, Whole
  <2>7. Building'
    BY <1>1, <1>2, <1>3, <1>4, <1>5, <2>1, <2>2, <2>3, Kinds DEF TypeOK, Lone, Building, Built
  <2>8. NoOlder'
    BY <1>1, <1>2, <1>4, <1>5, <2>1, Kinds DEF TypeOK, Lone, NoOlder, Built
  <2>9. Querying'
    <3> SUFFICES ASSUME NEW q \in Querier
                 PROVE  /\ floor'[q] <= since'
                        /\ sidecar'[q] = "read" =>
                             Whole(file'[open'[q]]) /\ floor'[q] <= file'[open'[q]].version
                        /\ \A f \in result'[q] : Whole(f) /\ floor'[q] <= f.version
      BY DEF Querying
    <3>1. sidecar'[q] = sidecar[q] /\ open'[q] = open[q]
      BY <1>1, <1>2, Kinds DEF TypeOK
    <3> QED BY <1>1, <1>2, <1>6, <2>1, <2>4, <3>1, Kinds DEF Lone, Querying, Handles, Whole
  <2> QED BY <2>5, <2>6, <2>7, <2>8, <2>9 DEF Lone
<1> QED
  BY <1>7, <1>8, <1>9, <1>10, <1>11 DEF IInv

LEMMA SwapKeeps ==
  ASSUME IInv, NEW p \in Builder, Swap(p)
  PROVE  IInv'
<1>1. /\ sidecar[p] = "swap" /\ sidecar' = [sidecar EXCEPT ![p] = "answered"]
      /\ tmp # NoFile /\ index' = tmp /\ tmp' = NoFile
      /\ committed' = committed \cup {file[tmp].version}
      /\ UNCHANGED <<vault, file, indexed, cli, scanned, open,
                     since, began, floor, result, crowded>>
  BY DEF Swap, SidecarGoes
<1>2. TypeOK /\ Pairs /\ Handles
  BY DEF IInv
<1>3. tmp \in DOMAIN file /\ file[tmp] \in File
  BY <1>1, <1>2 DEF TypeOK
<1>4. TypeOK'
  <2>1. committed' \subseteq Version
    BY <1>1, <1>2, <1>3 DEF TypeOK, File
  <2> QED BY <1>1, <1>2, <1>3, <2>1 DEF TypeOK, Sidecars
<1>5. Shape' /\ Results' /\ Recent'
  BY <1>1 DEF IInv, Shape, Results, Recent
<1>6. Pairs' /\ Handles'
  BY <1>1, <1>2, Kinds DEF TypeOK, Pairs, Handles
<1>7. ASSUME ~crowded' PROVE Lone'
  <2>1. Lone
    BY <1>1, <1>7 DEF IInv
  <2>2. \A b \in Builder : b # p => cli[b] = "idle" /\ sidecar[b] = "none"
    BY <1>1, <1>2, <2>1, Kinds DEF Lone, Alone, Pairs
  <2>3. cli[p] # "idle" /\ cli[p] # "append"
    BY <1>1, <1>2, Kinds DEF Pairs
  <2>4. Whole(file[tmp]) /\ file[tmp].version = scanned[p]
    BY <1>1, <2>1 DEF Lone, Building
  <2>5. since <= scanned[p]
    <3>1. since <= began[p] /\ began[p] <= scanned[p]
      BY <1>1, <2>1, <2>3 DEF Lone, NoOlder
    <3> QED BY <1>2, <3>1, Kinds DEF TypeOK, Version
  <2>6. Alone' /\ IndexWhole' /\ indexed' \subseteq committed'
    BY <1>1, <2>1, <2>4 DEF Lone, Alone, IndexWhole
  <2>7. Building'
    BY <1>1, <1>2, <1>3, <2>2, <2>3, <2>4, Kinds DEF TypeOK, Building, Built
  <2>8. NoOlder'
    BY <1>1, <1>2, <2>1, <2>2, <2>4, <2>5, Kinds DEF TypeOK, Lone, NoOlder, Built
  <2>9. Querying'
    BY <1>1, <1>2, <2>1, Kinds DEF TypeOK, Lone, Querying
  <2> QED BY <2>6, <2>7, <2>8, <2>9 DEF Lone
<1> QED
  BY <1>4, <1>5, <1>6, <1>7 DEF IInv

-----------------------------------------------------------------------------
LEMMA StepKeepsIInv == IInv /\ [Next]_vars => IInv'
<1> SUFFICES ASSUME IInv, [Next]_vars PROVE IInv'
  OBVIOUS
<1>1. CASE Edit
  BY <1>1, EditKeeps
<1>2. ASSUME NEW p \in Proc,
             \/ Request(p) \/ Answered(p) \/ Refused(p) \/ Timeout(p) \/ Closed(p)
             \/ SidecarDies(p)
             \/ OpenIndex(p) \/ QueryFails(p) \/ Answer(p)
      PROVE  IInv'
  <2>1. CASE Request(p)
    BY <2>1, RequestKeeps
  <2>2. CASE Answered(p)
    <3>1. CASE Ends(p)
      <4>1. /\ sidecar' = [sidecar EXCEPT ![p] = "none"]
            /\ UNCHANGED <<vault, index, tmp, indexed, since, committed, crowded>>
            /\ UNCHANGED <<file, open>>
        BY <2>2 DEF Answered, SidecarGoes, disk
      <4> QED BY <3>1, <4>1, EndingKeeps
    <3>2. CASE ~Ends(p)
      <4>1. /\ p \in Builder /\ cli[p] = "waiting" /\ SidecarGoes(p, "answered", "none")
            /\ cli' = [cli EXCEPT ![p] = "append"]
            /\ UNCHANGED <<vault, disk, indexed, open, since, committed, crowded,
                           scanned, began, floor, result>>
        BY <2>2, <3>2 DEF Answered
      <4> QED BY <4>1, AnsweredKeeps
    <3> QED BY <3>1, <3>2
  <2>3. CASE Refused(p) \/ Closed(p)
    <3>1. /\ Ends(p) /\ sidecar' = [sidecar EXCEPT ![p] = "none"]
          /\ UNCHANGED <<vault, index, tmp, indexed, since, committed, crowded>>
          /\ UNCHANGED <<file, open>>
      BY <2>3 DEF Refused, Closed, SidecarGoes, disk
    <3> QED BY <3>1, EndingKeeps
  <2>4. CASE Timeout(p)
    BY <2>4, TimeoutKeeps
  <2>5. CASE SidecarDies(p)
    <3>1. /\ Ends(p) /\ sidecar' = [sidecar EXCEPT ![p] = "none"]
          /\ UNCHANGED <<vault, index, tmp, indexed, since, committed, crowded>>
          /\ Releases(p)
      BY <2>5 DEF SidecarDies
    <3> QED BY <3>1, EndingKeeps
  <2>6. CASE OpenIndex(p)
    BY <2>6, OpenKeeps
  <2>7. CASE QueryFails(p)
    <3>1. /\ Fails(p) /\ sidecar[p] \notin {"none", "answered"} /\ tmp' = tmp
          /\ UNCHANGED <<vault, index, indexed, cli, scanned, history>>
      BY <2>7 DEF QueryFails
    <3> QED BY <3>1, FailingKeeps
  <2>8. CASE Answer(p)
    BY <2>8, AnswerKeeps
  <2> QED BY <1>2, <2>1, <2>2, <2>3, <2>4, <2>5, <2>6, <2>7, <2>8
<1>3. ASSUME NEW p \in Builder,
             \/ AppendIndexed(p)
             \/ Scan(p) \/ EmbedFails(p) \/ ClearTmp(p) \/ CreateTmp(p) \/ BuildFails(p)
             \/ Write(p) \/ CloseFile(p) \/ Swap(p) \/ SwapFails(p)
      PROVE  IInv'
  <2>1. CASE EmbedFails(p) \/ BuildFails(p) \/ SwapFails(p)
    <3>1. /\ Fails(p) /\ sidecar[p] \notin {"none", "answered"}
          /\ tmp' = tmp \/ tmp' = NoFile
          /\ UNCHANGED <<vault, index, indexed, cli, scanned, history>>
      BY <2>1 DEF EmbedFails, BuildFails, SwapFails
    <3> QED BY <3>1, FailingKeeps, Kinds
  <2> QED
    BY <1>3, <2>1, AppendKeeps, ScanKeeps, ClearKeeps, CreateKeeps, WriteKeeps, CloseKeeps, SwapKeeps
<1>4. CASE UNCHANGED vars
  BY <1>4 DEF vars, IInv, TypeOK, Shape, Results, Pairs, Handles, Recent, Lone, Alone,
              IndexWhole, Building, Built, NoOlder, Querying
<1> QED
  BY <1>1, <1>2, <1>3, <1>4 DEF Next

(* The invariant of the argument above, for every instance.                *)
LEMMA Invariance == Spec => []IInv
<1> QED
  BY InitIInv, StepKeepsIInv, PTL DEF Spec

(* A build that overlaps no other leaves, however it fails, times out or   *)
(* is killed, a complete index, and an event only if it became the index.  *)
THEOREM LoneBuildsAreSound == Spec => []LoneBuildsSound
<1>1. IInv => LoneBuildsSound
  BY DEF IInv, Lone, LoneBuildsSound, LoneBuildsWhole, EventsCommitted
<1> QED
  BY <1>1, Invariance, PTL

(* Builds not overlapping, a query is answered from a complete index and   *)
(* from notes no older than the last successful build before it found.     *)
THEOREM QueriesAreFresh == Spec => []QueriesFresh
<1>1. IInv => QueriesFresh
  <2> SUFFICES ASSUME IInv, ~crowded, NEW p \in Querier, NEW f \in result[p]
               PROVE  Whole(f) /\ f.version >= floor[p]
    BY DEF QueriesFresh
  <2>1. Whole(f) /\ floor[p] <= f.version
    BY DEF IInv, Lone, Querying
  <2>2. f.version \in Nat /\ floor[p] \in Nat
    BY Kinds DEF IInv, TypeOK, Version, File
  <2> QED BY <2>1, <2>2
<1> QED
  BY <1>1, Invariance, PTL

(* Once there is an index there always is one, even if builds overlap.     *)
THEOREM AnIndexStays == Spec => IndexStays
<1>1. [Next]_vars => [index # NoFile => index' # NoFile]_index
  <2> SUFFICES ASSUME [Next]_vars, index' # index, index # NoFile PROVE index' # NoFile
    OBVIOUS
  <2>1. CASE \E p \in Builder : Swap(p)
    BY <2>1 DEF Swap
  <2>2. CASE ~\E p \in Builder : Swap(p)
    BY <2>2 DEF Next, vars, disk, Edit, Request, Answered, Refused, Timeout, Closed, SidecarDies,
                OpenIndex, QueryFails, Answer, AppendIndexed, Scan, EmbedFails, ClearTmp,
                CreateTmp, BuildFails, Write, CloseFile, SwapFails
  <2> QED BY <2>1, <2>2
<1> QED
  BY <1>1, PTL DEF Spec, IndexStays

-----------------------------------------------------------------------------
(* Seen from outside, IndexSwap is a register.  What a reader sees of the  *)
(* disk is the version of a file, and that never changes (FilesKept); so   *)
(* every step but those of a query, a swap, an event and an edit is a      *)
(* stutter.                                                                *)

FilesKept ==
  \A i \in DOMAIN file : i \in DOMAIN file' /\ file'[i].version = file[i].version

LEMMA FilesStay ==
  ASSUME IInv, [Next]_vars
  PROVE  FilesKept
<1>1. TypeOK /\ Handles
  BY DEF IInv
<1>2. ASSUME NEW p \in Proc, Releases(p)
      PROVE  FilesKept
  BY <1>2, Released DEF FilesKept
<1>3. ASSUME NEW p \in Builder, CreateTmp(p)
      PROVE  FilesKept
  <2>1. PICK i \in Inode :
          /\ i = Cardinality(DOMAIN file) + 1
          /\ file' = [x \in DOMAIN file \cup {i} |->
                         IF x = i THEN [version |-> scanned[p], built |-> 0, writer |-> p]
                         ELSE file[x]]
    BY <1>3 DEF CreateTmp
  <2>2. i \notin DOMAIN file
    BY <2>1, NextInode
  <2> QED BY <2>1, <2>2 DEF FilesKept
<1>4. ASSUME NEW p \in Builder, Write(p) \/ CloseFile(p)
      PROVE  FilesKept
  <2>1. open[p] \in DOMAIN file /\ file[open[p]] \in File
    BY <1>1, <1>4, Kinds DEF Write, CloseFile, SidecarGoes, TypeOK, Handles
  <2>2. \/ file' = [file EXCEPT ![open[p]].built = @ + 1]
        \/ file' = [file EXCEPT ![open[p]].writer = Nobody]
    BY <1>4 DEF Write, CloseFile
  <2> QED BY <2>1, <2>2 DEF FilesKept, File
<1>5. CASE UNCHANGED file
  BY <1>5 DEF FilesKept
<1>6. CASE /\ ~UNCHANGED file
           /\ \A p \in Proc : ~Releases(p)
           /\ \A p \in Builder : ~(CreateTmp(p) \/ Write(p) \/ CloseFile(p))
  <2>1. FALSE
    BY <1>6, Kinds
       DEF Next, vars, disk, Edit, Request, Answered, Refused, Timeout, Closed, SidecarDies,
           OpenIndex, QueryFails, Answer, AppendIndexed, Scan, EmbedFails, ClearTmp,
           BuildFails, Swap, SwapFails, Fails
  <2> QED BY <2>1
<1> QED
  BY <1>2, <1>3, <1>4, <1>5, <1>6

LEMMA CurrentKept ==
  ASSUME IInv, FilesKept, index' = index
  PROVE  Current' = Current
<1>1. index = NoFile \/ index \in DOMAIN file
  BY DEF IInv, TypeOK
<1> QED
  BY <1>1 DEF FilesKept, Current

(* What a query is seen to do, and a step in which it does nothing.        *)
Idle(q) ==
  /\ cli'[q] = "idle" <=> cli[q] = "idle"
  /\ sidecar'[q] = "read" <=> sidecar[q] = "read"
  /\ sidecar[q] = "read" => open'[q] = open[q]
  /\ result'[q] = result[q]

LEMMA IdleKept ==
  ASSUME IInv, FilesKept, NEW q \in Querier, Idle(q)
  PROVE  Views'[q] = Views[q] /\ Answers'[q] = Answers[q] /\ (q \in Asking' <=> q \in Asking)
<1>1. sidecar[q] = "read" => open[q] \in DOMAIN file
  BY Kinds DEF IInv, Handles
<1> QED
  BY <1>1 DEF Idle, FilesKept, Views, Answers, Asking

(* All queries do nothing, or all but one.                                 *)
LEMMA AllIdle ==
  ASSUME IInv, FilesKept, \A q \in Querier : Idle(q)
  PROVE  Views' = Views /\ Answers' = Answers /\ Asking' = Asking
<1>1. \A q \in Querier :
        Views'[q] = Views[q] /\ Answers'[q] = Answers[q] /\ (q \in Asking' <=> q \in Asking)
  BY IdleKept
<1>2. Asking' = Asking
  BY <1>1 DEF Asking
<1>3. Views' = Views
  BY <1>1 DEF Views
<1>4. Answers' = Answers
  BY <1>1 DEF Answers
<1> QED BY <1>2, <1>3, <1>4

LEMMA OthersIdle ==
  ASSUME IInv, FilesKept, NEW p \in Querier, \A q \in Querier \ {p} : Idle(q)
  PROVE  /\ Views' = [Views EXCEPT ![p] = Views'[p]]
         /\ Answers' = [Answers EXCEPT ![p] = Answers'[p]]
         /\ Asking' = IF cli'[p] = "idle" THEN Asking \ {p} ELSE Asking \cup {p}
<1>1. \A q \in Querier \ {p} :
        Views'[q] = Views[q] /\ Answers'[q] = Answers[q] /\ (q \in Asking' <=> q \in Asking)
  BY IdleKept
<1>2. Views' = [Views EXCEPT ![p] = Views'[p]]
  BY <1>1 DEF Views
<1>3. Answers' = [Answers EXCEPT ![p] = Answers'[p]]
  BY <1>1 DEF Answers
<1>4. Asking' = IF cli'[p] = "idle" THEN Asking \ {p} ELSE Asking \cup {p}
  BY <1>1 DEF Asking
<1> QED BY <1>2, <1>3, <1>4

-----------------------------------------------------------------------------
(* The steps of a query.                                                   *)

LEMMA RequestMaps ==
  ASSUME IInv, FilesKept, NEW p \in Proc, Request(p)
  PROVE  Register!Next \/ UNCHANGED Register!vars
<1>1. /\ cli[p] = "idle" /\ cli' = [cli EXCEPT ![p] = "waiting"]
      /\ sidecar' = [sidecar EXCEPT ![p] = "scan"]
      /\ crowded' = (crowded \/ (p \in Builder /\ \E q \in Builder : cli[q] # "idle"))
      /\ UNCHANGED <<vault, index, indexed, open, since, result>>
  BY DEF Request, disk
<1>2. TypeOK /\ Pairs
  BY DEF IInv
<1>3. Current' = Current
  BY <1>1, CurrentKept
<1>4. CASE p \in Querier
  <2>1. \A q \in Querier \ {p} : Idle(q)
    BY <1>1, <1>2, Kinds DEF TypeOK, Idle
  <2>2. sidecar[p] = "none" /\ sidecar'[p] = "scan" /\ cli'[p] = "waiting"
    BY <1>1, <1>2 DEF TypeOK, Pairs
  <2>3. /\ Views[p] = {} /\ Views'[p] = {} /\ Answers'[p] = Answers[p] /\ p \notin Asking
    BY <1>1, <1>4, <2>2 DEF Views, Answers, Asking
  <2>4. Views' = Views /\ Answers' = Answers /\ Asking' = Asking \cup {p}
    BY <1>4, <2>1, <2>2, <2>3, OthersIdle DEF Views, Answers
  <2>5. crowded' = crowded
    BY <1>1, <1>2, <1>4, Kinds DEF TypeOK
  <2>6. Register!Ask(p)
    BY <1>1, <1>3, <2>3, <2>4, <2>5 DEF Register!Ask
  <2> QED BY <1>4, <2>6 DEF Register!Next
<1>5. CASE p \notin Querier
  <2>1. \A q \in Querier : Idle(q)
    BY <1>1, <1>2, <1>5, Kinds DEF TypeOK, Idle
  <2>2. Views' = Views /\ Answers' = Answers /\ Asking' = Asking
    BY <2>1, AllIdle
  <2>3. CASE crowded' = crowded
    BY <1>1, <1>3, <2>2, <2>3 DEF Register!vars
  <2>4. CASE crowded' # crowded
    <3>1. crowded' = TRUE
      BY <1>1, <1>2, <2>4 DEF TypeOK
    <3>2. Register!Overlap
      BY <1>1, <1>3, <2>2, <3>1 DEF Register!Overlap
    <3> QED BY <3>2 DEF Register!Next
  <2> QED BY <2>3, <2>4
<1> QED BY <1>4, <1>5

LEMMA EndingMaps ==
  ASSUME IInv, FilesKept, NEW p \in Proc, Ends(p),
         sidecar' = [sidecar EXCEPT ![p] = "none"],
         Releases(p) \/ UNCHANGED open,
         UNCHANGED <<vault, index, indexed, since, crowded>>
  PROVE  Register!Next \/ UNCHANGED Register!vars
<1>1. cli' = [cli EXCEPT ![p] = "idle"] /\ result' = [result EXCEPT ![p] = {}]
  BY DEF Ends
<1>2. TypeOK /\ Results
  BY DEF IInv
<1>3. \A q \in Proc \ {p} : Idle(q)
  BY <1>1, <1>2 DEF TypeOK, Results, Releases, Idle
<1>4. Current' = Current
  BY CurrentKept
<1>5. CASE p \in Querier
  <2>1. \A q \in Querier \ {p} : Idle(q)
    BY <1>3, Kinds
  <2>2. cli'[p] = "idle" /\ Views'[p] = {} /\ Answers'[p] = {}
    BY <1>1, <1>2, <1>5 DEF TypeOK, Results, Views, Answers
  <2>3. Register!Leave(p)
    BY <1>4, <1>5, <2>1, <2>2, OthersIdle DEF Register!Leave
  <2> QED BY <1>5, <2>3 DEF Register!Next
<1>6. CASE p \notin Querier
  <2>1. \A q \in Querier : Idle(q)
    BY <1>3, <1>6, Kinds
  <2> QED BY <1>4, <2>1, AllIdle DEF Register!vars
<1> QED BY <1>5, <1>6

LEMMA OpenMaps ==
  ASSUME IInv, FilesKept, NEW p \in Querier, OpenIndex(p)
  PROVE  Register!Next
<1>1. /\ sidecar[p] = "scan" /\ sidecar' = [sidecar EXCEPT ![p] = "read"]
      /\ index # NoFile /\ open' = [open EXCEPT ![p] = index]
      /\ UNCHANGED <<vault, file, index, indexed, cli, since, result, crowded>>
  BY DEF OpenIndex, SidecarGoes, disk, history
<1>2. TypeOK /\ Pairs /\ p \in Proc
  BY Kinds DEF IInv
<1>3. \A q \in Querier \ {p} : Idle(q)
  BY <1>1, <1>2, Kinds DEF TypeOK, Idle
<1>4. cli[p] # "idle" /\ result[p] = {}
  BY <1>1, <1>2 DEF Pairs
<1>5. Current = {file[index].version} /\ Current' = Current
  BY <1>1 DEF Current
<1>6. sidecar'[p] = "read" /\ open'[p] = index
  BY <1>1, <1>2 DEF TypeOK
<1>7. Views[p] = {} /\ Answers[p] = {} /\ p \in Asking /\ Views'[p] = Current
  BY <1>1, <1>4, <1>5, <1>6 DEF Views, Answers, Asking
<1>8. Answers' = Answers /\ Asking' = Asking
  BY <1>1 DEF Answers, Asking
<1>9. Views' = [Views EXCEPT ![p] = Current]
  BY <1>3, <1>7, OthersIdle
<1>10. Register!Look(p)
  BY <1>1, <1>5, <1>7, <1>8, <1>9 DEF Register!Look
<1> QED BY <1>10 DEF Register!Next

LEMMA QueryFailsMaps ==
  ASSUME IInv, FilesKept, NEW p \in Querier, QueryFails(p)
  PROVE  Register!Next
<1>1. /\ sidecar' = [sidecar EXCEPT ![p] = "failed"] /\ open' = [open EXCEPT ![p] = NoFile]
      /\ UNCHANGED <<vault, index, indexed, cli, since, result, crowded>>
  BY DEF QueryFails, Fails, Releases, history
<1>2. TypeOK /\ p \in Proc
  BY Kinds DEF IInv
<1>3. \A q \in Querier \ {p} : Idle(q)
  BY <1>1, <1>2, Kinds DEF TypeOK, Idle
<1>4. Current' = Current
  BY <1>1, CurrentKept
<1>5. Views'[p] = {}
  BY <1>1, <1>2 DEF TypeOK, Views
<1>6. Answers' = Answers /\ Asking' = Asking
  BY <1>1 DEF Answers, Asking
<1>7. Register!Fail(p)
  BY <1>1, <1>3, <1>4, <1>5, <1>6, OthersIdle DEF Register!Fail
<1> QED BY <1>7 DEF Register!Next

LEMMA AnswerMaps ==
  ASSUME IInv, FilesKept, NEW p \in Proc, Answer(p)
  PROVE  Register!Next
<1>1. /\ sidecar[p] = "read" /\ sidecar' = [sidecar EXCEPT ![p] = "answered"]
      /\ result' = [result EXCEPT ![p] = {file[open[p]]}]
      /\ open' = [open EXCEPT ![p] = NoFile]
      /\ UNCHANGED <<vault, index, indexed, cli, since, crowded>>
  BY DEF Answer, SidecarGoes, disk
<1>2. TypeOK /\ Results /\ Pairs
  BY DEF IInv
<1>3. p \in Querier
  BY <1>1, <1>2, Kinds DEF Pairs
<1>4. \A q \in Querier \ {p} : Idle(q)
  BY <1>1, <1>2, Kinds DEF TypeOK, Results, Idle
<1>5. Current' = Current
  BY <1>1, CurrentKept
<1>6. sidecar'[p] = "answered" /\ result'[p] = {file[open[p]]}
  BY <1>1, <1>2 DEF TypeOK, Results
<1>7. Views[p] = {file[open[p]].version} /\ Views'[p] = {}
  BY <1>1, <1>3, <1>6 DEF Views
<1>8. Answers'[p] = Views[p]
  BY <1>3, <1>6, <1>7 DEF Answers
<1>9. Asking' = Asking
  BY <1>1 DEF Asking
<1>10. Views' = [Views EXCEPT ![p] = {}] /\ Answers' = [Answers EXCEPT ![p] = Views[p]]
  BY <1>3, <1>4, <1>7, <1>8, OthersIdle
<1>11. Register!Reply(p)
  BY <1>1, <1>5, <1>7, <1>9, <1>10 DEF Register!Reply
<1> QED BY <1>3, <1>11 DEF Register!Next

(* The steps of a build.                                                   *)

LEMMA BuilderUnseen ==
  ASSUME IInv, FilesKept, NEW p \in Builder,
         \A q \in Querier :
           /\ cli'[q] = cli[q] /\ sidecar'[q] = sidecar[q]
           /\ open'[q] = open[q] /\ result'[q] = result[q]
  PROVE  Views' = Views /\ Answers' = Answers /\ Asking' = Asking
<1>1. \A q \in Querier : Idle(q)
  BY DEF Idle
<1> QED BY <1>1, AllIdle

LEMMA SwapMaps ==
  ASSUME IInv, FilesKept, NEW p \in Builder, Swap(p)
  PROVE  Register!Next
<1>1. /\ sidecar[p] = "swap" /\ sidecar' = [sidecar EXCEPT ![p] = "answered"]
      /\ tmp # NoFile /\ index' = tmp
      /\ UNCHANGED <<vault, file, indexed, cli, open, since, result, crowded>>
  BY DEF Swap, SidecarGoes
<1>2. TypeOK /\ Pairs /\ Recent
  BY DEF IInv
<1>3. tmp \in DOMAIN file /\ file[tmp].version \in Version
  BY <1>1, <1>2 DEF TypeOK, File
<1>4. Views' = Views /\ Answers' = Answers /\ Asking' = Asking
  BY <1>1, <1>2, Kinds, BuilderUnseen DEF TypeOK
<1>5. Current' = {file[tmp].version}
  BY <1>1 DEF Current
<1>6. ASSUME ~crowded PROVE file[tmp].version \in since..vault
  <2>1. Lone
    BY <1>6 DEF IInv
  <2>2. cli[p] # "idle"
    BY <1>1, <1>2, Kinds DEF Pairs
  <2>3. /\ file[tmp].version = scanned[p]
        /\ since <= began[p] /\ began[p] <= scanned[p] /\ scanned[p] <= vault
    BY <1>1, <1>2, <2>1, <2>2, Kinds DEF Lone, Building, NoOlder, Recent
  <2> QED BY <1>2, <2>3, Kinds, SizeAssumption DEF TypeOK, Version
<1>7. Register!Build(file[tmp].version)
  BY <1>1, <1>4, <1>5, <1>6 DEF Register!Build
<1> QED BY <1>3, <1>7 DEF Register!Next

LEMMA AppendMaps ==
  ASSUME IInv, FilesKept, NEW p \in Builder, AppendIndexed(p)
  PROVE  Register!Next \/ UNCHANGED Register!vars
<1>1. /\ cli[p] = "append" /\ cli' = [cli EXCEPT ![p] = "idle"]
      /\ result' = [result EXCEPT ![p] = {}]
      /\ UNCHANGED <<vault, file, index, sidecar, open, crowded>>
  BY DEF AppendIndexed, Ends, disk
<1>2. TypeOK /\ Results
  BY DEF IInv
<1>3. Views' = Views /\ Answers' = Answers /\ Asking' = Asking
  BY <1>1, <1>2, Kinds, BuilderUnseen DEF TypeOK, Results
<1>4. Current' = Current
  BY <1>1 DEF Current
<1>5. CASE UNCHANGED <<indexed, since>>
  BY <1>1, <1>3, <1>4, <1>5 DEF Register!vars
<1>6. CASE /\ indexed' = indexed \cup {scanned[p]}
           /\ since' = IF began[p] > since THEN began[p] ELSE since
  <2>1. since' \in Version /\ since' >= since /\ since' \in {since, began[p]}
    BY <1>2, <1>6, Kinds, SizeAssumption DEF TypeOK, Version
  <2>2. ASSUME ~crowded PROVE Current = {scanned[p]} /\ since' <= scanned[p]
    <3>1. /\ index \in DOMAIN file /\ file[index].version = scanned[p]
          /\ began[p] <= scanned[p] /\ since <= file[index].version
      BY <1>1, <2>2 DEF IInv, Lone, Building, NoOlder, Built
    <3>2. index # NoFile
      BY <1>2, <3>1 DEF TypeOK, Inode, NoFile
    <3> QED BY <2>1, <3>1, <3>2 DEF Current
  <2>3. Register!Confirm(scanned[p], since')
    BY <1>1, <1>3, <1>4, <1>6, <2>1, <2>2 DEF Register!Confirm
  <2>4. scanned[p] \in Version
    BY <1>2, Kinds DEF TypeOK
  <2> QED BY <2>1, <2>3, <2>4 DEF Register!Next
<1> QED BY <1>5, <1>6 DEF AppendIndexed

(* Every step of IndexSwap is a step of the register, or none.             *)
LEMMA StepMaps == IInv /\ [Next]_vars => [Register!Next]_(Register!vars)
<1> SUFFICES ASSUME IInv, [Next]_vars PROVE Register!Next \/ UNCHANGED Register!vars
  OBVIOUS
<1>1. FilesKept
  BY FilesStay
<1>2. TypeOK /\ Results /\ Pairs
  BY DEF IInv
<1>3. CASE Edit
  <2>1. /\ vault' = vault + 1
        /\ UNCHANGED <<file, index, indexed, cli, sidecar, open, since, result, crowded>>
    BY <1>3 DEF Edit, disk, history
  <2>2. Register!Edit
    BY <2>1 DEF Register!Edit, Current, Asking, Views, Answers
  <2> QED BY <2>2 DEF Register!Next
<1>4. ASSUME NEW p \in Proc,
             \/ Request(p) \/ Answered(p) \/ Refused(p) \/ Timeout(p) \/ Closed(p)
             \/ SidecarDies(p)
             \/ OpenIndex(p) \/ QueryFails(p) \/ Answer(p)
      PROVE  Register!Next \/ UNCHANGED Register!vars
  <2>1. CASE Request(p)
    BY <1>1, <2>1, RequestMaps
  <2>2. CASE Refused(p) \/ Closed(p) \/ SidecarDies(p) \/ (Answered(p) /\ Ends(p))
    <3>1. /\ Ends(p) /\ sidecar' = [sidecar EXCEPT ![p] = "none"]
          /\ Releases(p) \/ UNCHANGED open
          /\ UNCHANGED <<vault, index, indexed, since, crowded>>
      BY <2>2 DEF Refused, Closed, SidecarDies, Answered, SidecarGoes, disk
    <3> QED BY <1>1, <3>1, EndingMaps
  <2>3. CASE Answered(p) /\ ~Ends(p)
    <3>1. /\ p \in Builder /\ cli' = [cli EXCEPT ![p] = "append"]
          /\ sidecar' = [sidecar EXCEPT ![p] = "none"]
          /\ UNCHANGED <<vault, index, indexed, open, since, result, crowded>>
      BY <2>3 DEF Answered, SidecarGoes, disk
    <3>2. Views' = Views /\ Answers' = Answers /\ Asking' = Asking
      BY <1>1, <1>2, <3>1, Kinds, BuilderUnseen DEF TypeOK
    <3>3. Current' = Current
      BY <1>1, <3>1, CurrentKept
    <3> QED BY <3>1, <3>2, <3>3 DEF Register!vars
  <2>4. CASE Timeout(p)
    <3>1. /\ cli[p] = "waiting" /\ cli' = [cli EXCEPT ![p] = "closing"]
          /\ UNCHANGED <<vault, index, indexed, sidecar, open, since, result, crowded>>
      BY <2>4 DEF Timeout, disk, history
    <3>2. \A q \in Querier : Idle(q)
      BY <1>2, <3>1, Kinds DEF TypeOK, Idle
    <3>3. Views' = Views /\ Answers' = Answers /\ Asking' = Asking
      BY <1>1, <3>2, AllIdle
    <3>4. Current' = Current
      BY <1>1, <3>1, CurrentKept
    <3> QED BY <3>1, <3>3, <3>4 DEF Register!vars
  <2>5. CASE OpenIndex(p)
    BY <1>1, <2>5, OpenMaps DEF OpenIndex
  <2>6. CASE QueryFails(p)
    BY <1>1, <2>6, QueryFailsMaps DEF QueryFails
  <2>7. CASE Answer(p)
    BY <1>1, <2>7, AnswerMaps
  <2> QED BY <1>4, <2>1, <2>2, <2>3, <2>4, <2>5, <2>6, <2>7
<1>5. ASSUME NEW p \in Builder,
             \/ AppendIndexed(p)
             \/ Scan(p) \/ EmbedFails(p) \/ ClearTmp(p) \/ CreateTmp(p) \/ BuildFails(p)
             \/ Write(p) \/ CloseFile(p) \/ Swap(p) \/ SwapFails(p)
      PROVE  Register!Next \/ UNCHANGED Register!vars
  <2>1. CASE AppendIndexed(p)
    BY <1>1, <2>1, AppendMaps
  <2>2. CASE Swap(p)
    BY <1>1, <2>2, SwapMaps
  <2>3. CASE \/ Scan(p) \/ EmbedFails(p) \/ ClearTmp(p) \/ CreateTmp(p) \/ BuildFails(p)
             \/ Write(p) \/ CloseFile(p) \/ SwapFails(p)
    <3>1. UNCHANGED <<vault, index, indexed, cli, since, result, crowded>>
      BY <2>3 DEF Scan, EmbedFails, ClearTmp, CreateTmp, BuildFails, Write, CloseFile,
                  SwapFails, disk, history
    <3>2. \A q \in Querier : sidecar'[q] = sidecar[q] /\ open'[q] = open[q]
      BY <1>2, <2>3, Kinds
         DEF TypeOK, Scan, EmbedFails, ClearTmp, CreateTmp, BuildFails, Write, CloseFile,
             SwapFails, SidecarGoes, Fails, Releases
    <3>3. Views' = Views /\ Answers' = Answers /\ Asking' = Asking
      BY <1>1, <3>1, <3>2, BuilderUnseen
    <3>4. Current' = Current
      BY <1>1, <3>1, CurrentKept
    <3> QED BY <3>1, <3>3, <3>4 DEF Register!vars
  <2> QED BY <1>5, <2>1, <2>2, <2>3
<1>6. CASE UNCHANGED vars
  BY <1>6 DEF vars, Register!vars, Current, Asking, Views, Answers
<1> QED
  BY <1>3, <1>4, <1>5, <1>6 DEF Next

(* Seen from outside, `index' and `query' are a register: however many     *)
(* files, timeouts and deaths there are, the index is replaced in one step *)
(* and never taken away, a query is answered with what it held at one      *)
(* moment of the query, and, builds not overlapping, the index never falls *)
(* back behind the last successful `index' and events tell of what is in   *)
(* it.                                                                     *)
THEOREM ActsAsRegister == Spec => ImplementsRegister
<1>1. Init => Register!Init
  <2> SUFFICES ASSUME Init PROVE Register!Init
    OBVIOUS
  <2>1. Current = {}
    BY DEF Init, Current
  <2>2. Asking = {} /\ Views = [q \in Querier |-> {}] /\ Answers = [q \in Querier |-> {}]
    BY Kinds DEF Init, Asking, Views, Answers
  <2> QED BY <2>1, <2>2 DEF Init, Register!Init
<1>2. IInv /\ [Next]_vars => [Register!Next]_(Register!vars)
  BY StepMaps
<1> QED
  BY <1>1, <1>2, Invariance, PTL DEF Spec, ImplementsRegister, Register!Spec
=============================================================================
