------------------------ MODULE GraphProjectionProofs ------------------------
(* Theorems about GraphProjection, for every number of processes, notes,   *)
(* edits and merges: what resolving a merge gives (packages/memory-kernel/ *)
(* src/projector.ts), what the projectors derive, and what the tables and  *)
(* the log have at any moment.                                             *)
EXTENDS GraphProjection, FiniteSetTheorems, WellFoundedInduction, TLAPS

(***************************************************************************)
(* Walking a map of merges.                                                *)
(***************************************************************************)

(* A map of merges, and a walk that goes on by one step.                   *)
IsMap(m) == DOMAIN m \subseteq Ids /\ \A d \in DOMAIN m : m[d] \in Ids

More(m, w) == w.cur \in DOMAIN m /\ w.cur \notin w.passed
Onward(m, w) == [cur |-> m[w.cur], passed |-> w.passed \cup {w.cur}]
Follows(m, e) == e = [w \in Walk |-> IF More(m, w) THEN e[Onward(m, w)] ELSE w.cur]
End(m) == CHOOSE e : Follows(m, e)
From(x) == [cur |-> x, passed |-> {}]

(* Resolving is where the walk from an entity ends.                        *)
LEMMA ResolveIsEnd == ASSUME NEW m, NEW x PROVE Resolve(m, x) = End(m)[From(x)]
BY DEF Resolve, End, Follows, More, Onward, From

LEMMA OnwardIsWalk ==
  ASSUME NEW m, IsMap(m), NEW w \in Walk, More(m, w)
  PROVE  Onward(m, w) \in Walk
BY DEF IsMap, More, Onward, Walk

(* Where a walk comes by: what every set has that holds the walk and, with *)
(* a walk that is not over, the next one.                                  *)
Closed(m, Q) == \A w \in Q : More(m, w) => Onward(m, w) \in Q
Trail(m, v) == {w \in Walk : \A Q \in SUBSET Walk : v \in Q /\ Closed(m, Q) => w \in Q}
Over(m, v) == {w \in Trail(m, v) : ~More(m, w)}

(* A walk that is not over comes by what its next one comes by.            *)
LEMMA TrailUnfolds ==
  ASSUME NEW m, IsMap(m), NEW v \in Walk, More(m, v)
  PROVE  Trail(m, v) = {v} \cup Trail(m, Onward(m, v))
<1> DEFINE n == Onward(m, v)
           T == {v} \cup Trail(m, n)
<1>1. n \in Walk
  BY OnwardIsWalk
<1>2. T \subseteq Walk /\ v \in T /\ n \in T
  BY <1>1 DEF Trail
<1>3. Closed(m, T)
  <2> SUFFICES ASSUME NEW w \in T, More(m, w) PROVE Onward(m, w) \in T
    BY DEF Closed
  <2>1. CASE w = v
    BY <1>2, <2>1
  <2>2. CASE w \in Trail(m, n)
    <3>1. Onward(m, w) \in Walk
      BY <2>2, OnwardIsWalk DEF Trail
    <3>2. \A Q \in SUBSET Walk : n \in Q /\ Closed(m, Q) => Onward(m, w) \in Q
      BY <2>2 DEF Trail, Closed
    <3> QED
      BY <3>1, <3>2 DEF Trail
  <2> QED
    BY <2>1, <2>2
<1>4. Trail(m, v) \subseteq T
  BY <1>2, <1>3 DEF Trail
<1>5. T \subseteq Trail(m, v)
  BY <1>1 DEF Trail, Closed
<1> QED
  BY <1>4, <1>5

(* The recursive definition has a solution.                                *)
LEMMA EndExists == ASSUME NEW m, IsMap(m) PROVE Follows(m, End(m))
<1> DEFINE last(v) == IF More(m, v) THEN (CHOOSE w : w \in Over(m, v)).cur ELSE v.cur
           e == [w \in Walk |-> last(w)]
<1>1. ASSUME NEW v \in Walk, More(m, v) PROVE e[v] = e[Onward(m, v)]
  <2> DEFINE n == Onward(m, v)
  <2>1. n \in Walk
    BY <1>1, OnwardIsWalk
  <2>2. Over(m, v) = Over(m, n)
    BY <1>1, TrailUnfolds DEF Over
  <2>3. CASE More(m, n)
    BY <1>1, <2>1, <2>2, <2>3
  <2>4. CASE ~More(m, n)
    <3>1. {n} \in SUBSET Walk /\ Closed(m, {n})
      BY <2>1, <2>4 DEF Closed
    <3>2. n \in Trail(m, n)
      BY <2>1 DEF Trail
    <3>3. Over(m, n) = {n}
      BY <2>4, <3>1, <3>2 DEF Over, Trail
    <3> QED
      BY <1>1, <2>1, <2>2, <2>4, <3>3
  <2> QED
    BY <2>3, <2>4
<1>2. ASSUME NEW v \in Walk PROVE e[v] = IF More(m, v) THEN e[Onward(m, v)] ELSE v.cur
  <2>1. More(m, v) => e[v] = e[Onward(m, v)]
    BY <1>1
  <2>2. ~More(m, v) => e[v] = v.cur
    OBVIOUS
  <2> HIDE DEF e
  <2> QED
    BY <2>1, <2>2
<1> HIDE DEF last
<1>3. e = [w \in Walk |-> IF More(m, w) THEN e[Onward(m, w)] ELSE w.cur]
  <2>1. e = [w \in Walk |-> e[w]]
    OBVIOUS
  <2> HIDE DEF e
  <2> QED
    BY <1>2, <2>1, Zenon
<1>4. Follows(m, e)
  BY <1>3, Zenon DEF Follows
<1> QED
  BY <1>4 DEF End

(* A property of walks that steps keep holds where a walk ends: there the  *)
(* map ends too, or the walk has come round.                               *)
LEMMA WalkEnds ==
  ASSUME NEW m, IsMap(m),
         NEW Q \in SUBSET Walk, Closed(m, Q), NEW x, From(x) \in Q
  PROVE  \E w \in Q : ~More(m, w) /\ w.cur = Resolve(m, x)
<1> DEFINE e == End(m)
           P == {w \in Q : e[w] = e[From(x)]}
           T == {Ids \ w.passed : w \in P}
<1>1. \A w \in Walk : e[w] = IF More(m, w) THEN e[Onward(m, w)] ELSE w.cur
  BY EndExists DEF Follows
<1> HIDE DEF e
<1>2. From(x) \in P
  OBVIOUS
<1>3. IsFiniteSet(Ids)
  BY SizeAssumption, FS_Interval DEF Ids
<1>4. T \subseteq FiniteSubsetsOf(Ids) /\ T # {}
  <2>1. FiniteSubsetsOf(Ids) = SUBSET Ids
    BY <1>3, FS_FiniteSubsetsOfFinite
  <2>2. ASSUME NEW Y \in T PROVE Y \in SUBSET Ids
    OBVIOUS
  <2>3. Ids \ From(x).passed \in T
    BY <1>2
  <2> HIDE DEF T
  <2> QED
    BY <2>1, <2>2, <2>3
<1>5. PICK X \in T : \A Y \in T : <<Y, X>> \notin StrictSubsetOrdering(Ids)
  BY <1>4, FS_StrictSubsetOrderingWellFounded, WFMin
<1>6. PICK w \in P : X = Ids \ w.passed
  OBVIOUS
<1>7. ASSUME More(m, w) PROVE FALSE
  <2>1. Onward(m, w) \in P
    BY <1>1, <1>6, <1>7 DEF Closed
  <2>2. Ids \ Onward(m, w).passed \in T
    BY <2>1
  <2>3. w.cur \in Ids /\ w.cur \notin w.passed /\ Onward(m, w).passed = w.passed \cup {w.cur}
    BY <1>7, <1>6 DEF More, Onward, Walk
  <2>4. <<Ids \ Onward(m, w).passed, X>> \in StrictSubsetOrdering(Ids)
    BY <1>6, <2>3 DEF StrictSubsetOrdering
  <2> QED
    BY <1>5, <2>2, <2>4
<1>8. w.cur = e[From(x)]
  BY <1>1, <1>7
<1>9. w.cur = Resolve(m, x)
  BY <1>8, ResolveIsEnd DEF e
<1> QED
  BY <1>7, <1>9

(***************************************************************************)
(* What resolving gives.                                                   *)
(***************************************************************************)

(* What is reached is reached one merge on, and from one merge on.         *)
LEMMA ReachesOnward ==
  ASSUME NEW m, IsMap(m), NEW x \in Ids, NEW c \in DOMAIN m, Reaches(m, x, c)
  PROVE  Reaches(m, x, m[c])
BY DEF Reaches

LEMMA ReachesAfter ==
  ASSUME NEW m, IsMap(m), NEW c \in DOMAIN m, NEW y \in Ids, Reaches(m, c, y), c # y
  PROVE  Reaches(m, m[c], y)
<1> SUFFICES ASSUME NEW S \in SUBSET Ids, m[c] \in S, \A d \in S \cap DOMAIN m : m[d] \in S
             PROVE  y \in S
  BY DEF Reaches
<1>1. S \cup {c} \in SUBSET Ids /\ \A d \in (S \cup {c}) \cap DOMAIN m : m[d] \in S \cup {c}
  BY DEF IsMap
<1> QED
  BY <1>1 DEF Reaches

(* Nothing but itself is reached from an entity that is not merged away.   *)
LEMMA ReachesNone ==
  ASSUME NEW m, NEW c \in Ids, c \notin DOMAIN m, NEW y, Reaches(m, c, y)
  PROVE  y = c
<1>1. {c} \in SUBSET Ids /\ \A d \in {c} \cap DOMAIN m : m[d] \in {c}
  OBVIOUS
<1> QED
  BY <1>1 DEF Reaches

(* The entity that another resolves to is reached from it.                 *)
LEMMA ResolveReached ==
  ASSUME NEW m, IsMap(m), NEW x \in Ids
  PROVE  Resolve(m, x) \in Ids /\ Reaches(m, x, Resolve(m, x))
<1> DEFINE Q == {w \in Walk : Reaches(m, x, w.cur)}
<1>1. From(x) \in Q
  BY DEF From, Walk, Reaches
<1>2. Closed(m, Q)
  <2> SUFFICES ASSUME NEW w \in Q, More(m, w) PROVE Onward(m, w) \in Q
    BY DEF Closed
  <2>1. Onward(m, w) \in Walk
    BY OnwardIsWalk
  <2>2. Reaches(m, x, m[w.cur])
    BY ReachesOnward DEF More
  <2> QED
    BY <2>1, <2>2 DEF Onward
<1> HIDE DEF Q
<1>3. PICK w \in Q : w.cur = Resolve(m, x)
  <2>1. Q \in SUBSET Walk
    BY DEF Q
  <2> QED
    BY <1>1, <1>2, <2>1, WalkEnds
<1> QED
  BY <1>3 DEF Q, Walk

(* If it is merged away itself, the map leads from it back to it.          *)
LEMMA ResolveComesRound ==
  ASSUME NEW m, IsMap(m), NEW x \in Ids, Resolve(m, x) \in DOMAIN m
  PROVE  Reaches(m, m[Resolve(m, x)], Resolve(m, x))
<1> DEFINE Q == {w \in Walk : /\ w.passed \subseteq DOMAIN m
                              /\ \A z \in w.passed : Reaches(m, m[z], w.cur)}
<1>1. From(x) \in Q
  BY DEF From, Walk
<1>2. Closed(m, Q)
  <2> SUFFICES ASSUME NEW w \in Q, More(m, w) PROVE Onward(m, w) \in Q
    BY DEF Closed
  <2>1. Onward(m, w) \in Walk
    BY OnwardIsWalk
  <2>2. ASSUME NEW z \in w.passed \cup {w.cur} PROVE Reaches(m, m[z], m[w.cur])
    <3>1. CASE z \in w.passed
      <4>1. Reaches(m, m[z], w.cur) /\ m[z] \in Ids
        BY <3>1 DEF IsMap
      <4> QED
        BY <4>1, ReachesOnward DEF More
    <3>2. CASE z = w.cur
      BY <3>2 DEF Reaches
    <3> QED
      BY <3>1, <3>2
  <2>3. w.passed \cup {w.cur} \subseteq DOMAIN m
    BY DEF More
  <2> QED
    BY <2>1, <2>2, <2>3 DEF Onward
<1> HIDE DEF Q
<1>3. PICK w \in Q : ~More(m, w) /\ w.cur = Resolve(m, x)
  <2>1. Q \in SUBSET Walk
    BY DEF Q
  <2> QED
    BY <1>1, <1>2, <2>1, WalkEnds
<1> QED
  BY <1>3 DEF Q, More

(* An entity to which the map leads back, or that it does not redirect,    *)
(* resolves to itself.                                                     *)
LEMMA ResolveStays ==
  ASSUME NEW m, IsMap(m), NEW y \in Ids,
         y \in DOMAIN m => Reaches(m, m[y], y)
  PROVE  Resolve(m, y) = y
<1> DEFINE Turning(w) ==
             /\ y \in w.passed
             /\ Reaches(m, w.cur, y)
             /\ \A z \in w.passed : z \in DOMAIN m /\ m[z] \in w.passed \cup {w.cur}
             /\ w.cur # y => \A z \in w.passed : m[z] # y
           Q == {w \in Walk : w = From(y) \/ Turning(w)}
<1>1. From(y) \in Q
  BY DEF From, Walk
<1>2. Closed(m, Q)
  <2> SUFFICES ASSUME NEW w \in Q, More(m, w) PROVE Onward(m, w) \in Q
    BY DEF Closed
  <2>1. Onward(m, w) \in Walk
    BY OnwardIsWalk
  <2>2. CASE w = From(y)
    <3>1. Onward(m, w) = [cur |-> m[y], passed |-> {y}] /\ y \in DOMAIN m
      BY <2>2 DEF Onward, From, More
    <3> QED
      BY <2>1, <3>1
  <2>3. CASE Turning(w)
    <3>1. w.cur \in DOMAIN m /\ w.cur \in Ids /\ w.cur # y
      BY <2>3 DEF More, Walk
    <3>2. Reaches(m, m[w.cur], y)
      BY <2>3, <3>1, ReachesAfter
    <3>3. Turning(Onward(m, w))
      BY <2>3, <3>1, <3>2 DEF Onward
    <3> QED
      BY <2>1, <3>3
  <2> QED
    BY <2>2, <2>3
<1> HIDE DEF Q
<1>3. PICK w \in Q : ~More(m, w) /\ w.cur = Resolve(m, y)
  <2>1. Q \in SUBSET Walk
    BY DEF Q
  <2> QED
    BY <1>1, <1>2, <2>1, WalkEnds
<1>4. CASE w = From(y)
  BY <1>3, <1>4 DEF From
<1>5. CASE Turning(w)
  <2> SUFFICES ASSUME w.cur # y PROVE FALSE
    BY <1>3
  <2>1. w.cur \in Ids /\ w.passed \in SUBSET Ids
    BY DEF Q, Walk
  <2>2. w.cur \in w.passed
    BY <1>3, <1>5, <2>1, ReachesNone DEF More
  <2>3. /\ w.passed \ {y} \in SUBSET Ids
        /\ \A d \in (w.passed \ {y}) \cap DOMAIN m : m[d] \in w.passed \ {y}
    BY <1>5, <2>1, <2>2
  <2>4. y \in w.passed \ {y}
    BY <1>5, <2>2, <2>3 DEF Reaches
  <2> QED
    BY <2>4
<1> QED
  BY <1>4, <1>5 DEF Q

(* Resolving is idempotent, whatever was merged.                           *)
THEOREM ResolveTwice ==
  ASSUME NEW m, IsMap(m), NEW x \in Ids
  PROVE  Resolve(m, Resolve(m, x)) = Resolve(m, x)
BY ResolveReached, ResolveComesRound, ResolveStays

(* Without a cycle it gives the entity that the other stands for.          *)
THEOREM ResolveStandsFor ==
  ASSUME NEW m, IsMap(m), Acyclic(m), NEW x \in Ids, NEW y \in Ids
  PROVE  StandsFor(m, x, y) <=> y = Resolve(m, x)
<1>1. Resolve(m, x) \notin DOMAIN m
  BY ResolveComesRound DEF Acyclic
<1>2. StandsFor(m, x, Resolve(m, x))
  BY <1>1, ResolveReached DEF StandsFor
<1>3. ASSUME StandsFor(m, x, y) PROVE y = Resolve(m, x)
  <2> DEFINE Q == {w \in Walk : Reaches(m, w.cur, y)}
  <2>1. From(x) \in Q
    BY <1>3 DEF From, Walk, StandsFor
  <2>2. Closed(m, Q)
    <3> SUFFICES ASSUME NEW w \in Q, More(m, w) PROVE Onward(m, w) \in Q
      BY DEF Closed
    <3>1. Onward(m, w) \in Walk
      BY OnwardIsWalk
    <3>2. Reaches(m, m[w.cur], y)
      BY <1>3, ReachesAfter DEF More, StandsFor
    <3> QED
      BY <3>1, <3>2 DEF Onward
  <2> HIDE DEF Q
  <2>3. PICK w \in Q : w.cur = Resolve(m, x)
    <3>1. Q \in SUBSET Walk
      BY DEF Q
    <3> QED
      BY <2>1, <2>2, <3>1, WalkEnds
  <2>4. w.cur \in Ids /\ Reaches(m, w.cur, y)
    BY DEF Q, Walk
  <2> QED
    BY <1>1, <2>3, <2>4, ReachesNone
<1> QED
  BY <1>2, <1>3

(***************************************************************************)
(* The map of the merges that a log has.                                   *)
(***************************************************************************)

(* Every set of natural numbers that is not empty has a least one.         *)
LEMMA LeastNumber ==
  ASSUME NEW S, S \subseteq Nat, S # {}
  PROVE  \E n \in S : \A m \in S : n <= m
<1> DEFINE T == {0..n : n \in S}
<1>1. \A n \in Nat : IsFiniteSet(0..n) /\ 0..n \subseteq Nat
  BY FS_Interval
<1>2. T \subseteq FiniteSubsetsOf(Nat) /\ T # {}
  BY <1>1 DEF FiniteSubsetsOf
<1> HIDE DEF T
<1>3. PICK X \in T : \A Y \in T : <<Y, X>> \notin StrictSubsetOrdering(Nat)
  BY <1>2, FS_StrictSubsetOrderingWellFounded, WFMin
<1>4. PICK n \in S : X = 0..n
  BY DEF T
<1>5. ASSUME NEW m \in S, ~(n <= m) PROVE FALSE
  <2>1. 0..m \in T /\ 0..m \in SUBSET Nat /\ X \in SUBSET Nat
    BY <1>1, <1>4 DEF T
  <2>2. 0..m \subseteq X /\ n \in X /\ n \notin 0..m
    BY <1>4, <1>5
  <2>3. <<0..m, X>> \in StrictSubsetOrdering(Nat)
    BY <2>1, <2>2 DEF StrictSubsetOrdering
  <2> QED
    BY <1>3, <2>1, <2>3
<1> QED
  BY <1>5

(* The greatest of the numbers up to a bound.                              *)
LEMMA GreatestNumber ==
  ASSUME NEW n \in Nat, NEW S, S \subseteq 1..n, S # {}
  PROVE  \E k \in S : \A j \in S : j <= k
<1> DEFINE T == {n - k : k \in S}
<1>1. T \subseteq Nat /\ T # {}
  <2>1. \A k \in S : n - k \in Nat
    OBVIOUS
  <2> QED
    BY <2>1
<1> HIDE DEF T
<1>2. PICK a \in T : \A b \in T : a <= b
  BY <1>1, LeastNumber
<1>3. PICK k \in S : a = n - k
  BY DEF T
<1>4. ASSUME NEW j \in S PROVE j <= k
  <2>1. n - j \in T
    BY DEF T
  <2> QED
    BY <1>2, <1>3, <2>1
<1> QED
  BY <1>4

(* The last merge of a duplicate exists, so the map has it.               *)
LEMMA MergeMapIsMap == ASSUME NEW ms \in Seq(Merge) PROVE IsMap(MergeMap(ms))
<1> DEFINE Last(d) == CHOOSE k \in DOMAIN ms : /\ ms[k].dup = d
                                               /\ \A j \in DOMAIN ms : ms[j].dup = d => j <= k
<1>1. \A k \in DOMAIN ms : ms[k].dup \in Ids /\ ms[k].into \in Ids
  <2>1. \A k \in DOMAIN ms : ms[k] \in Merge
    OBVIOUS
  <2> QED
    BY <2>1 DEF Merge
<1>2. ASSUME NEW d \in {ms[k].dup : k \in DOMAIN ms} PROVE Last(d) \in DOMAIN ms
  <2> DEFINE S == {k \in DOMAIN ms : ms[k].dup = d}
  <2>1. Len(ms) \in Nat /\ S \subseteq 1..Len(ms) /\ S # {}
    OBVIOUS
  <2>2. \E k \in S : \A j \in S : j <= k
    BY <2>1, GreatestNumber
  <2> QED
    BY <2>2
<1> HIDE DEF Last
<1>3. \A d \in {ms[k].dup : k \in DOMAIN ms} : ms[Last(d)].into \in Ids
  BY <1>1, <1>2
<1>4. MergeMap(ms) = [d \in {ms[k].dup : k \in DOMAIN ms} |-> ms[Last(d)].into]
  BY DEF MergeMap, Last
<1> QED
  BY <1>1, <1>3, <1>4 DEF IsMap

(***************************************************************************)
(* What the projectors derive.                                             *)
(***************************************************************************)

(* A set of edges in which each joins two entities, and no two the same.   *)
Simple(E) ==
  \A e \in E : e.from # e.to /\ \A g \in E : (g.from = e.from /\ g.to = e.to) => g = e

(* The edges derived from one listing are simple.                          *)
LEMMA EdgeRowsSimple ==
  ASSUME NEW ns, NEW ms
  PROVE  EdgeRows(ns, ms) \subseteq Edge /\ Simple(EdgeRows(ns, ms))
<1>1. EdgeRows(ns, ms) \subseteq Edge
  BY DEF EdgeRows
<1>2. ASSUME NEW e \in EdgeRows(ns, ms) PROVE e.from # e.to
  BY DEF EdgeRows
<1>3. ASSUME NEW e \in EdgeRows(ns, ms), NEW g \in EdgeRows(ns, ms),
             g.from = e.from, g.to = e.to
      PROVE  g = e
  <2>1. e.source <= g.source /\ g.source <= e.source
    BY <1>3 DEF EdgeRows
  <2>2. e \in Edge /\ g \in Edge /\ e.source \in Nat /\ g.source \in Nat
    BY <1>1 DEF Edge, Ids
  <2>3. e.source = g.source
    BY <2>1, <2>2
  <2> QED
    BY <1>3, <2>2, <2>3 DEF Edge
<1> QED
  BY <1>1, <1>2, <1>3 DEF Simple

(* The edges join what the two ends of a reference resolve to.             *)
Refers(ns, m, x, y) ==
  \E i \in EntityNotes(ns) : \E r \in ns[i].refs : x = Resolve(m, i) /\ y = Resolve(m, r)

(* And they are all there.                                                 *)
LEMMA EdgeRowsExact ==
  ASSUME NEW ns \in [Ids -> Note \cup {NoNote}], NEW ms \in Seq(Merge),
         NEW x \in Ids, NEW y \in Ids
  PROVE  (\E e \in EdgeRows(ns, ms) : e.from = x /\ e.to = y)
           <=> x # y /\ Refers(ns, MergeMap(ms), x, y)
<1> DEFINE m == MergeMap(ms)
           found == {e \in Edge : /\ e.source \in EntityNotes(ns)
                                  /\ e.from = Resolve(m, e.source)
                                  /\ \E r \in ns[e.source].refs : e.to = Resolve(m, r)
                                  /\ e.from # e.to}
           S == {i \in Ids : \E e \in found : e.source = i /\ e.from = x /\ e.to = y}
<1>1. EdgeRows(ns, ms) =
        {e \in found : \A g \in found : (g.from = e.from /\ g.to = e.to) => e.source <= g.source}
  BY DEF EdgeRows
<1>2. ASSUME NEW e \in found, e.from = x, e.to = y PROVE x # y /\ Refers(ns, m, x, y)
  BY <1>2 DEF Refers
<1>3. ASSUME x # y, Refers(ns, m, x, y) PROVE S # {}
  <2>1. PICK i \in EntityNotes(ns) : \E r \in ns[i].refs : x = Resolve(m, i) /\ y = Resolve(m, r)
    BY <1>3 DEF Refers
  <2>2. [from |-> x, to |-> y, source |-> i] \in found
    BY <1>3, <2>1 DEF Edge, EntityNotes
  <2> QED
    BY <2>2 DEF Edge
<1>4. ASSUME S # {} PROVE \E e \in EdgeRows(ns, ms) : e.from = x /\ e.to = y
  <2>1. S \subseteq Nat
    BY DEF Ids
  <2> HIDE DEF S
  <2>2. PICK i \in S : \A j \in S : i <= j
    BY <1>4, <2>1, LeastNumber
  <2>3. PICK e \in found : e.source = i /\ e.from = x /\ e.to = y
    BY DEF S
  <2>4. ASSUME NEW g \in found, g.from = e.from, g.to = e.to PROVE e.source <= g.source
    <3>1. g.source \in S
      BY <2>3, <2>4 DEF S, Edge
    <3> QED
      BY <2>2, <2>3, <3>1
  <2> HIDE DEF found
  <2> QED
    BY <1>1, <2>3, <2>4
<1> HIDE DEF found, S
<1> QED
  BY <1>1, <1>2, <1>3, <1>4

(* Every projector gives rows of its table.                                *)
LEMMA RowsTyped ==
  ASSUME NEW t \in Tables, NEW ns, NEW ms
  PROVE  Rows(t, ns, ms) \subseteq (IF t = "edges" THEN Edge ELSE Ids)
BY EdgeRowsSimple DEF Rows, Tables, NodeRows, EntityNotes, TaskRows

(***************************************************************************)
(* The inductive invariant.                                                *)
(***************************************************************************)

(* Rows of the three tables.                                               *)
RowSets == [nodes : SUBSET Ids, edges : SUBSET Edge, tasks : SUBSET Ids]

(* What a projection is deriving, and what it has still to derive: one     *)
(* that holds the lock is a rebuild, any other has one table.              *)
Orders ==
  \A p \in Proc :
    /\ lock = p => pc[p] \in {"list", "derive", "commit"}
    /\ pc[p] = "commit" => lock = p /\ agenda[p] = <<>>
    /\ lock = p /\ pc[p] \in {"list", "derive"} =>
         agenda[p] \in {<<"nodes", "edges", "tasks">>, <<"edges", "tasks">>, <<"tasks">>}
    /\ lock # p /\ pc[p] \in {"list", "derive", "delete", "insert"} =>
         agenda[p] \in {<<t>> : t \in Tables}

(* What is in hand is as simple as what is stored.                         *)
EdgesSimple == Simple(tables["edges"]) /\ \A p \in Proc : Simple(work[p]["edges"])

(* Whatever is a row of the nodes has been projected, and so has what a    *)
(* command has found there, wherever the nodes are by now.                 *)
Found ==
  /\ tables["nodes"] \subseteq seen
  /\ \A p \in Proc :
       /\ pc[p] \in {"canonical", "duplicate", "append"} => arg[p].into # arg[p].dup
       /\ pc[p] \in {"duplicate", "append"} => arg[p].into \in seen
       /\ pc[p] = "append" => arg[p].dup \in seen

(* As long as the sources stay, a rebuild has the notes as they are, and   *)
(* each table it is done with has what they mean.                          *)
Left(p) == {agenda[p][k] : k \in DOMAIN agenda[p]}
Undisturbed ==
  \A p \in Proc : lock = p /\ ~touched[p] =>
    /\ pc[p] = "derive" => snap[p] = notes
    /\ \A t \in Tables \ Left(p) :
         work[p][t] = Rows(t, notes, merges) /\ (t = "nodes" => Untitled(notes) = {})

IInv ==
  /\ TypeOK
  /\ tables \in RowSets /\ work \in [Proc -> RowSets]
  /\ Orders /\ EdgesSimple /\ Found /\ MergesGrounded /\ Undisturbed

(* Sets of rows are functions of the tables.                               *)
LEMMA RowSetsRows == \A rows \in RowSets : IsRows(rows)
BY DEF RowSets, IsRows, Tables

LEMMA NoRowsTyped == NoRows \in RowSets
BY DEF NoRows, RowSets, Tables

-----------------------------------------------------------------------------
(* The steps.                                                              *)

Typed == TypeOK /\ tables \in RowSets /\ work \in [Proc -> RowSets]

(* The invariant holds in the beginning, and every step keeps it.          *)
LEMMA InitHolds == Init => IInv
<1> SUFFICES ASSUME Init PROVE IInv
  OBVIOUS
<1>1. Typed
  BY NoRowsTyped, RowSetsRows, SizeAssumption, VaultAssumption
  DEF Init, Typed, TypeOK, Locations, Blank, NoMerge, Merge, Ids
<1>2. Orders
  BY NullAssumption DEF Init, Orders
<1>3. EdgesSimple
  BY DEF Init, EdgesSimple, Simple, NoRows, Tables
<1>4. Found /\ MergesGrounded
  BY DEF Init, Found, MergesGrounded, NoRows, Tables
<1>5. Undisturbed
  BY NullAssumption DEF Init, Undisturbed
<1> QED
  BY <1>1, <1>2, <1>3, <1>4, <1>5 DEF IInv, Typed

(* A process goes back to idle.                                            *)
LEMMA EndsTyped ==
  ASSUME IInv, NEW p \in Proc, Ends(p)
  PROVE  /\ lock' \in Proc \cup {NoProc} /\ pc' \in [Proc -> Locations]
         /\ agenda' \in [Proc -> Seq(Tables)]
         /\ snap' \in [Proc -> [Ids -> NoteChoices \cup {NoNote}]]
         /\ work' \in [Proc -> RowSets] /\ arg' \in [Proc -> Merge]
BY NoRowsTyped, SizeAssumption DEF IInv, TypeOK, Ends, Locations, Blank, NoMerge, Merge, Ids

LEMMA EndsOrders ==
  ASSUME IInv, NEW p \in Proc, Ends(p)
  PROVE  Orders'
BY NullAssumption DEF IInv, TypeOK, Orders, Ends

LEMMA EndsSimple ==
  ASSUME IInv, NEW p \in Proc, Ends(p), NEW q \in Proc
  PROVE  Simple(work'[q]["edges"])
<1>1. Simple(NoRows["edges"])
  BY DEF Simple, NoRows, Tables
<1> QED
  BY <1>1 DEF IInv, EdgesSimple, Ends

(* A note is edited: whatever rebuild runs is touched.                     *)
LEMMA EditStep ==
  ASSUME IInv, NEW i \in Ids, Edit(i)
  PROVE  IInv'
<1>1. Typed'
  BY SizeAssumption DEF IInv, Typed, TypeOK, Edit
<1>2. Orders'
  BY DEF IInv, Orders, Edit
<1>3. EdgesSimple'
  BY DEF IInv, EdgesSimple, Edit
<1>4. Found' /\ MergesGrounded'
  BY DEF IInv, Found, MergesGrounded, Edit
<1>5. Undisturbed'
  BY DEF Undisturbed, Edit
<1> QED
  BY <1>1, <1>2, <1>3, <1>4, <1>5 DEF IInv, Typed

(* A process fails, dies, or is done with a projector run alone.           *)
LEMMA AbandonStep ==
  ASSUME IInv, NEW p \in Proc, Abandon(p) \/ FinishAlone(p)
  PROVE  IInv'
<1> USE DEF sources, history
<1>0. Ends(p) /\ UNCHANGED <<notes, merges, edits, tables, touched, seen>>
  BY DEF Abandon, FinishAlone
<1>1. Typed'
  BY <1>0, EndsTyped, RowSetsRows DEF IInv, Typed, TypeOK
<1>2. Orders'
  BY <1>0, EndsOrders
<1>3. EdgesSimple'
  BY <1>0, EndsSimple DEF IInv, EdgesSimple
<1>4. Found' /\ MergesGrounded'
  BY <1>0 DEF IInv, TypeOK, Found, MergesGrounded, Ends
<1>5. Undisturbed'
  BY <1>0, NullAssumption DEF IInv, TypeOK, Undisturbed, Ends, Left
<1> QED
  BY <1>1, <1>2, <1>3, <1>4, <1>5 DEF IInv, Typed

(* A merge is asked for, and its two entities are looked up.               *)
LEMMA MergeStep ==
  ASSUME IInv, NEW p \in Proc, StartMerge(p) \/ FindCanonical(p) \/ FindDuplicate(p)
  PROVE  IInv'
<1> USE DEF sources, history
<1>1. Typed'
  BY DEF IInv, Typed, TypeOK, StartMerge, FindCanonical, FindDuplicate, Locations
<1>2. Orders'
  BY DEF IInv, TypeOK, Orders, StartMerge, FindCanonical, FindDuplicate
<1>3. EdgesSimple'
  BY DEF IInv, EdgesSimple, StartMerge, FindCanonical, FindDuplicate
<1>4. MergesGrounded'
  BY DEF IInv, MergesGrounded, StartMerge, FindCanonical, FindDuplicate
<1>5. Found'
  BY DEF IInv, TypeOK, Found, StartMerge, FindCanonical, FindDuplicate, Exists
<1>6. Undisturbed'
  BY DEF IInv, TypeOK, Orders, Undisturbed, Left, StartMerge, FindCanonical, FindDuplicate
<1> QED
  BY <1>1, <1>2, <1>3, <1>4, <1>5, <1>6 DEF IInv, Typed

(* A merge is recorded: both ends were found, and stay projected.          *)
LEMMA AppendStep ==
  ASSUME IInv, NEW p \in Proc, AppendMerge(p)
  PROVE  IInv'
<1> USE DEF sources, history
<1>1. Typed'
  BY EndsTyped, RowSetsRows DEF IInv, Typed, TypeOK, AppendMerge
<1>2. Orders'
  BY EndsOrders DEF AppendMerge
<1>3. EdgesSimple'
  BY EndsSimple DEF IInv, EdgesSimple, AppendMerge
<1>4. MergesGrounded'
  <2>1. merges \in Seq(Merge) /\ arg[p] \in Merge /\ merges' = Append(merges, arg[p])
    BY DEF IInv, TypeOK, AppendMerge
  <2>2. \A k \in DOMAIN merges' :
          (k \in DOMAIN merges /\ merges'[k] = merges[k]) \/ merges'[k] = arg[p]
    BY <2>1
  <2>3. arg[p].into # arg[p].dup /\ {arg[p].into, arg[p].dup} \subseteq seen /\ seen' = seen
    BY DEF IInv, Found, AppendMerge
  <2> QED
    BY <2>2, <2>3 DEF IInv, MergesGrounded
<1>5. Found'
  BY DEF IInv, TypeOK, Found, AppendMerge, Ends
<1>6. Undisturbed'
  BY DEF Undisturbed, AppendMerge
<1> QED
  BY <1>1, <1>2, <1>3, <1>4, <1>5, <1>6 DEF IInv, Typed

(* A projection starts, or lists the notes.                                *)
LEMMA ListStep ==
  ASSUME IInv, NEW p \in Proc, StartRebuild(p) \/ StartAlone(p) \/ ListNotes(p)
  PROVE  IInv'
<1> USE DEF sources, history
<1>1. Typed'
  <2>1. <<"nodes", "edges", "tasks">> \in Seq(Tables) /\ \A t \in Tables : <<t>> \in Seq(Tables)
    BY DEF Tables
  <2>2. agenda' \in [Proc -> Seq(Tables)] /\ pc' \in [Proc -> Locations]
    BY <2>1 DEF IInv, TypeOK, StartRebuild, StartAlone, ListNotes, Locations
  <2>3. snap' \in [Proc -> [Ids -> NoteChoices \cup {NoNote}]]
    BY DEF IInv, TypeOK, StartRebuild, StartAlone, ListNotes
  <2> QED
    BY <2>2, <2>3 DEF IInv, Typed, TypeOK, StartRebuild, StartAlone, ListNotes
<1>2. Orders'
  BY NullAssumption DEF IInv, TypeOK, Orders, StartRebuild, StartAlone, ListNotes
<1>3. EdgesSimple'
  BY DEF IInv, EdgesSimple, StartRebuild, StartAlone, ListNotes
<1>4. Found' /\ MergesGrounded'
  BY DEF IInv, TypeOK, Found, MergesGrounded, StartRebuild, StartAlone, ListNotes
<1>5. CASE StartRebuild(p)
  <2>1. Left(p)' = Tables
    <3>1. agenda'[p] = <<"nodes", "edges", "tasks">>
      BY <1>5 DEF IInv, TypeOK, StartRebuild
    <3> QED
      BY <3>1 DEF Left, Tables
  <2>2. Undisturbed'
    BY <1>5, <2>1, NullAssumption DEF IInv, TypeOK, Undisturbed, StartRebuild
  <2> QED
    BY <1>1, <1>2, <1>3, <1>4, <2>2 DEF IInv, Typed
<1>6. CASE StartAlone(p) \/ ListNotes(p)
  <2>1. ASSUME NEW q \in Proc, lock' = q PROVE Left(q)' = Left(q)
    BY <1>6, <2>1 DEF IInv, TypeOK, Orders, Left, StartAlone, ListNotes
  <2>2. \A q \in Proc : lock' = q /\ pc'[q] = "derive" =>
          snap'[q] = notes \/ (pc[q] = "derive" /\ snap'[q] = snap[q])
    BY <1>6 DEF IInv, TypeOK, Orders, StartAlone, ListNotes
  <2>3. Undisturbed'
    BY <1>6, <2>1, <2>2 DEF IInv, Undisturbed, StartAlone, ListNotes
  <2> QED
    BY <1>1, <1>2, <1>3, <1>4, <2>3 DEF IInv, Typed
<1> QED
  BY <1>5, <1>6

(* The next table of a rebuild.                                            *)
LEMMA DeriveNextStep ==
  ASSUME IInv, NEW p \in Proc, DeriveNext(p)
  PROVE  IInv'
<1> USE DEF sources, history
<1> DEFINE t == Head(agenda[p])
           R == Rows(t, snap[p], merges)
<1>1. /\ pc[p] = "derive" /\ lock = p
      /\ agenda[p] \in {<<"nodes", "edges", "tasks">>, <<"edges", "tasks">>, <<"tasks">>}
      /\ agenda \in [Proc -> Seq(Tables)] /\ pc \in [Proc -> Locations]
      /\ work \in [Proc -> RowSets]
      /\ touched \in [Proc -> BOOLEAN]
      /\ snap \in [Proc -> [Ids -> NoteChoices \cup {NoNote}]]
  BY DEF DeriveNext, IInv, TypeOK, Orders
<1>2. /\ t \in Tables /\ Tail(agenda[p]) \in Seq(Tables)
      /\ Left(p) \ {t} = {Tail(agenda[p])[k] : k \in DOMAIN Tail(agenda[p])}
      /\ Tail(agenda[p]) \in {<<"edges", "tasks">>, <<"tasks">>, <<>>}
  <2>1. CASE agenda[p] = <<"nodes", "edges", "tasks">>
    <3>1. t = "nodes" /\ Tail(agenda[p]) = <<"edges", "tasks">>
      BY <2>1
    <3> QED
      BY <2>1, <3>1 DEF Left, Tables
  <2>2. CASE agenda[p] = <<"edges", "tasks">>
    <3>1. t = "edges" /\ Tail(agenda[p]) = <<"tasks">>
      BY <2>2
    <3> QED
      BY <2>2, <3>1 DEF Left, Tables
  <2>3. CASE agenda[p] = <<"tasks">>
    <3>1. t = "tasks" /\ Tail(agenda[p]) = <<>>
      BY <2>3
    <3> QED
      BY <2>3, <3>1 DEF Left, Tables
  <2> QED
    BY <1>1, <2>1, <2>2, <2>3
<1>3. R \in SUBSET (IF t = "edges" THEN Edge ELSE Ids)
  BY <1>2, RowsTyped, SizeAssumption
<1>4. /\ agenda' = [agenda EXCEPT ![p] = Tail(agenda[p])]
      /\ work' = [work EXCEPT ![p] = [work[p] EXCEPT ![t] = R]]
      /\ snap' = [snap EXCEPT ![p] = Blank]
      /\ pc' = [pc EXCEPT ![p] = IF Tail(agenda[p]) = <<>> THEN "commit" ELSE "list"]
      /\ UNCHANGED <<notes, merges, edits, tables, lock, arg, touched, seen>>
      /\ t = "nodes" => Untitled(snap[p]) = {}
  BY DEF DeriveNext
<1>5. /\ work'[p] \in RowSets /\ work'[p][t] = R
      /\ \A u \in Tables : u # t => work'[p][u] = work[p][u]
  <2>1. work[p] \in RowSets /\ work'[p] = [work[p] EXCEPT ![t] = R]
    BY <1>1, <1>4
  <2> HIDE DEF t, R
  <2> QED
    BY <1>2, <1>3, <2>1 DEF RowSets, Tables
<1> HIDE DEF t, R
<1>6. Typed'
  <2>1. agenda' \in [Proc -> Seq(Tables)] /\ pc' \in [Proc -> Locations]
    BY <1>1, <1>2, <1>4 DEF Locations
  <2>2. snap' \in [Proc -> [Ids -> NoteChoices \cup {NoNote}]]
    BY <1>1, <1>4 DEF Blank
  <2>3. work' \in [Proc -> RowSets]
    BY <1>1, <1>4, <1>5
  <2> QED
    BY <1>4, <2>1, <2>2, <2>3, RowSetsRows DEF IInv, Typed, TypeOK
<1>7. Orders'
  BY <1>1, <1>2, <1>4 DEF IInv, Orders
<1>8. EdgesSimple'
  <2>1. Simple(work'[p]["edges"])
    BY <1>5, EdgeRowsSimple, SizeAssumption DEF IInv, EdgesSimple, R, Rows, Tables
  <2>2. \A q \in Proc : q # p => work'[q] = work[q]
    BY <1>1, <1>4
  <2> QED
    BY <1>4, <2>1, <2>2 DEF IInv, EdgesSimple
<1>9. Found' /\ MergesGrounded'
  BY <1>1, <1>4 DEF IInv, Found, MergesGrounded
<1>10. Undisturbed'
  <2> SUFFICES ASSUME ~touched[p]
               PROVE  \A u \in Tables \ Left(p)' :
                        work'[p][u] = Rows(u, notes, merges) /\ (u = "nodes" => Untitled(notes) = {})
    BY <1>1, <1>4 DEF Undisturbed
  <2>1. snap[p] = notes
    BY <1>1 DEF IInv, Undisturbed
  <2>2. Left(p)' = Left(p) \ {t}
    BY <1>1, <1>2, <1>4 DEF Left
  <2>3. \A u \in Tables \ Left(p) :
          work[p][u] = Rows(u, notes, merges) /\ (u = "nodes" => Untitled(notes) = {})
    BY <1>1 DEF IInv, Undisturbed
  <2> QED
    BY <1>4, <1>5, <2>1, <2>2, <2>3 DEF R
<1> QED
  BY <1>6, <1>7, <1>8, <1>9, <1>10 DEF IInv, Typed

(* A rebuild commits.                                                      *)
LEMMA CommitStep ==
  ASSUME IInv, NEW p \in Proc, Commit(p)
  PROVE  IInv'
<1>1. Ends(p) /\ tables' = work[p] /\ seen' = seen \cup work[p]["nodes"]
      /\ UNCHANGED <<notes, merges, edits, touched>>
  BY DEF Commit, sources
<1>2. work[p] \in RowSets /\ work[p]["nodes"] \subseteq Ids
  BY DEF IInv, RowSets
<1>3. Typed'
  BY <1>1, <1>2, EndsTyped, RowSetsRows DEF IInv, Typed, TypeOK
<1>4. Orders'
  BY <1>1, EndsOrders
<1>5. EdgesSimple'
  BY <1>1, EndsSimple DEF IInv, EdgesSimple
<1>6. Found' /\ MergesGrounded'
  BY <1>1 DEF IInv, TypeOK, Found, MergesGrounded, Ends
<1>7. Undisturbed'
  BY <1>1, NullAssumption DEF IInv, TypeOK, Orders, Undisturbed, Ends, Commit
<1> QED
  BY <1>3, <1>4, <1>5, <1>6, <1>7 DEF IInv, Typed

(* One projector run alone.                                                *)
LEMMA AloneTable ==
  ASSUME IInv, NEW p \in Proc, lock # p, pc[p] \in {"derive", "delete", "insert"}
  PROVE  Head(agenda[p]) \in Tables
BY DEF IInv, Orders

LEMMA DeriveAloneStep ==
  ASSUME IInv, NEW p \in Proc, DeriveAlone(p)
  PROVE  IInv'
<1> USE DEF sources, history
<1> DEFINE t == Head(agenda[p])
           R == Rows(t, snap[p], merges)
<1>1. t \in Tables
  BY AloneTable DEF DeriveAlone
<1>2. R \in SUBSET (IF t = "edges" THEN Edge ELSE Ids)
  BY <1>1, RowsTyped, SizeAssumption
<1>3. /\ pc[p] = "derive" /\ lock # p
      /\ work' = [work EXCEPT ![p] = [work[p] EXCEPT ![t] = R]]
      /\ snap' = [snap EXCEPT ![p] = Blank]
      /\ pc' = [pc EXCEPT ![p] = "delete"]
      /\ UNCHANGED <<notes, merges, edits, tables, lock, agenda, arg, touched, seen>>
  BY DEF DeriveAlone
<1>4. /\ work \in [Proc -> RowSets] /\ pc \in [Proc -> Locations]
      /\ snap \in [Proc -> [Ids -> NoteChoices \cup {NoNote}]]
  BY DEF IInv, TypeOK
<1>5. /\ work'[p] \in RowSets /\ work'[p][t] = R
      /\ \A u \in Tables : u # t => work'[p][u] = work[p][u]
  <2>1. work[p] \in RowSets /\ work'[p] = [work[p] EXCEPT ![t] = R]
    BY <1>3, <1>4
  <2> HIDE DEF t, R
  <2> QED
    BY <1>1, <1>2, <2>1 DEF RowSets, Tables
<1> HIDE DEF t, R
<1>6. Typed'
  <2>1. snap' \in [Proc -> [Ids -> NoteChoices \cup {NoNote}]]
    BY <1>3, <1>4 DEF Blank
  <2>2. work' \in [Proc -> RowSets] /\ pc' \in [Proc -> Locations]
    BY <1>3, <1>4, <1>5 DEF Locations
  <2> QED
    BY <1>3, <2>1, <2>2, RowSetsRows DEF IInv, Typed, TypeOK
<1>7. Orders'
  BY <1>3, <1>4 DEF IInv, Orders
<1>8. EdgesSimple'
  <2>1. Simple(work'[p]["edges"])
    BY <1>5, EdgeRowsSimple, SizeAssumption DEF IInv, EdgesSimple, R, Rows, Tables
  <2>2. \A q \in Proc : q # p => work'[q] = work[q]
    BY <1>3, <1>4
  <2> QED
    BY <1>3, <2>1, <2>2 DEF IInv, EdgesSimple
<1>9. Found' /\ MergesGrounded'
  BY <1>3, <1>4 DEF IInv, Found, MergesGrounded
<1>10. Undisturbed'
  BY <1>3, <1>4 DEF IInv, Undisturbed, Left
<1> QED
  BY <1>6, <1>7, <1>8, <1>9, <1>10 DEF IInv, Typed

(* The table is emptied.                                                   *)
LEMMA DeleteStep ==
  ASSUME IInv, NEW p \in Proc, DeleteAll(p)
  PROVE  IInv'
<1> USE DEF sources, history
<1> DEFINE t == Head(agenda[p])
<1>1. /\ pc[p] = "delete" /\ lock = NoProc
      /\ tables' = [tables EXCEPT ![t] = {}]
      /\ pc' = [pc EXCEPT ![p] = "insert"]
      /\ UNCHANGED <<notes, merges, edits, lock, agenda, snap, work, arg, touched, seen>>
  BY DEF DeleteAll
<1>2. t \in Tables
  BY <1>1, AloneTable, NullAssumption
<1>3. tables \in RowSets /\ pc \in [Proc -> Locations]
  BY DEF IInv, TypeOK
<1>4. /\ tables' \in RowSets /\ tables'[t] = {}
      /\ \A u \in Tables : u # t => tables'[u] = tables[u]
  <2>1. {} \in SUBSET (IF t = "edges" THEN Edge ELSE Ids)
    OBVIOUS
  <2> HIDE DEF t
  <2> QED
    BY <1>1, <1>2, <1>3, <2>1 DEF RowSets, Tables
<1> HIDE DEF t
<1>5. Typed'
  BY <1>1, <1>3, <1>4, RowSetsRows DEF IInv, Typed, TypeOK, Locations
<1>6. Orders'
  BY <1>1, <1>3 DEF IInv, Orders
<1>7. EdgesSimple'
  <2>1. Simple({})
    BY DEF Simple
  <2> QED
    BY <1>1, <1>4, <2>1 DEF IInv, EdgesSimple, Tables
<1>8. Found' /\ MergesGrounded'
  <2>1. tables'["nodes"] \subseteq tables["nodes"]
    BY <1>4 DEF Tables
  <2> QED
    BY <1>1, <1>3, <2>1 DEF IInv, Found, MergesGrounded
<1>9. Undisturbed'
  BY <1>1, NullAssumption DEF Undisturbed
<1> QED
  BY <1>5, <1>6, <1>7, <1>8, <1>9 DEF IInv, Typed

(* A row is inserted, unless the index refuses it.                         *)
LEMMA InsertStep ==
  ASSUME IInv, NEW p \in Proc, InsertNext(p)
  PROVE  IInv'
<1> USE DEF sources, history
<1> DEFINE t == Head(agenda[p])
<1>1. PICK row \in work[p][t] :
        /\ ~Conflicts(t, row)
        /\ tables' = [tables EXCEPT ![t] = tables[t] \cup {row}]
        /\ work' = [work EXCEPT ![p] = [work[p] EXCEPT ![t] = work[p][t] \ {row}]]
        /\ seen' = IF t = "nodes" THEN seen \cup {row} ELSE seen
  BY DEF InsertNext
<1>2. /\ pc[p] = "insert" /\ lock = NoProc
      /\ UNCHANGED <<notes, merges, edits, lock, pc, agenda, snap, arg, touched>>
  BY DEF InsertNext
<1>3. t \in Tables
  BY <1>2, AloneTable, NullAssumption
<1>4. tables \in RowSets /\ work \in [Proc -> RowSets]
  BY DEF IInv
<1>5. \A rows \in RowSets : rows[t] \in SUBSET (IF t = "edges" THEN Edge ELSE Ids)
  BY <1>3 DEF RowSets, Tables
<1>6. /\ tables' \in RowSets /\ tables'[t] = tables[t] \cup {row}
      /\ \A u \in Tables : u # t => tables'[u] = tables[u]
  <2>1. tables[t] \cup {row} \in SUBSET (IF t = "edges" THEN Edge ELSE Ids)
    BY <1>4, <1>5
  <2> HIDE DEF t
  <2> QED
    BY <1>1, <1>3, <1>4, <2>1 DEF RowSets, Tables
<1>7. /\ work'[p] \in RowSets /\ work'[p][t] = work[p][t] \ {row}
      /\ \A u \in Tables : u # t => work'[p][u] = work[p][u]
  <2>1. work[p] \in RowSets /\ work'[p] = [work[p] EXCEPT ![t] = work[p][t] \ {row}]
    BY <1>1, <1>4
  <2>2. work[p][t] \ {row} \in SUBSET (IF t = "edges" THEN Edge ELSE Ids)
    BY <1>5, <2>1
  <2> HIDE DEF t
  <2> QED
    BY <1>3, <2>1, <2>2 DEF RowSets, Tables
<1>8. row \in (IF t = "edges" THEN Edge ELSE Ids)
  BY <1>4, <1>5
<1> HIDE DEF t
<1>9. \A q \in Proc : q # p => work'[q] = work[q]
  BY <1>1, <1>4
<1>10. Typed'
  <2>1. work' \in [Proc -> RowSets]
    BY <1>1, <1>4, <1>7
  <2>2. seen' \subseteq Ids
    BY <1>1, <1>8 DEF IInv, TypeOK
  <2> QED
    BY <1>2, <1>6, <2>1, <2>2, RowSetsRows DEF IInv, Typed, TypeOK
<1>11. Orders'
  BY <1>2 DEF IInv, Orders
<1>12. EdgesSimple'
  <2>1. Simple(tables'["edges"])
    <3>1. CASE t = "edges"
      <4>1. \A e \in tables["edges"] : ~(e.from = row.from /\ e.to = row.to)
        BY <1>1, <3>1 DEF Conflicts
      <4>2. /\ row.from # row.to /\ Simple(tables["edges"])
            /\ tables'["edges"] = tables["edges"] \cup {row}
        BY <1>6, <3>1 DEF IInv, EdgesSimple, Simple
      <4> QED
        BY <4>1, <4>2 DEF Simple
    <3>2. CASE t # "edges"
      BY <1>6, <3>2 DEF IInv, EdgesSimple, Tables
    <3> QED
      BY <3>1, <3>2
  <2>2. Simple(work'[p]["edges"])
    <3>1. work'[p]["edges"] \subseteq work[p]["edges"] /\ Simple(work[p]["edges"])
      BY <1>7 DEF IInv, EdgesSimple, Tables
    <3> QED
      BY <3>1 DEF Simple
  <2> QED
    BY <1>9, <2>1, <2>2 DEF IInv, EdgesSimple
<1>13. Found' /\ MergesGrounded'
  <2>1. seen \subseteq seen'
    BY <1>1
  <2>2. tables'["nodes"] \subseteq seen'
    <3>1. CASE t = "nodes"
      BY <1>1, <1>6, <3>1 DEF IInv, Found
    <3>2. CASE t # "nodes"
      BY <1>6, <2>1, <3>2 DEF IInv, Found, Tables
    <3> QED
      BY <3>1, <3>2
  <2> QED
    BY <1>2, <2>1, <2>2 DEF IInv, Found, MergesGrounded
<1>14. Undisturbed'
  BY <1>2, NullAssumption DEF Undisturbed
<1> QED
  BY <1>10, <1>11, <1>12, <1>13, <1>14 DEF IInv, Typed

LEMMA Inductive == IInv /\ [Next]_vars => IInv'
<1> SUFFICES ASSUME IInv, [Next]_vars
             PROVE  IInv'
  OBVIOUS
<1>1. CASE UNCHANGED vars
  BY <1>1 DEF IInv, TypeOK, Orders, EdgesSimple, Found, MergesGrounded, Undisturbed, Left, vars
<1>2. ASSUME NEW i \in Ids, Edit(i) PROVE IInv'
  BY <1>2, EditStep
<1>3. ASSUME NEW p \in Proc,
             \/ StartMerge(p) \/ FindCanonical(p) \/ FindDuplicate(p) \/ AppendMerge(p)
             \/ StartRebuild(p) \/ StartAlone(p) \/ ListNotes(p)
             \/ DeriveNext(p) \/ Commit(p)
             \/ DeriveAlone(p) \/ DeleteAll(p) \/ InsertNext(p) \/ FinishAlone(p)
             \/ Abandon(p)
      PROVE  IInv'
  BY <1>3, AbandonStep, MergeStep, AppendStep, ListStep, DeriveNextStep, CommitStep,
     DeriveAloneStep, DeleteStep, InsertStep
<1> QED
  BY <1>1, <1>2, <1>3 DEF Next

LEMMA Invariant == Spec => []IInv
<1>1. Init => IInv
  BY InitHolds
<1>2. IInv /\ [Next]_vars => IInv'
  BY Inductive
<1> QED
  BY <1>1, <1>2, PTL DEF Spec

-----------------------------------------------------------------------------
(* The theorems.                                                           *)

(* Whoever rebuilds, runs projectors alone and records merges at the same  *)
(* time, and whoever of them fails: no duplicate or self edge is stored    *)
(* (insertEntityEdge), merges are of projected entities (mergeEntities),   *)
(* and resolving a merge settles (resolveEntity).                          *)
THEOREM GraphIsSound == Spec => []GraphSound
<1>1. IInv => SimpleGraph
  BY DEF IInv, EdgesSimple, Simple, SimpleGraph
<1>2. IInv => ResolveSettles
  <2> SUFFICES ASSUME IInv PROVE ResolveSettles
    OBVIOUS
  <2>1. IsMap(MergeMap(merges))
    BY MergeMapIsMap DEF IInv, TypeOK
  <2> QED
    BY <2>1, ResolveTwice, SizeAssumption DEF ResolveSettles
<1>3. IInv => GraphSound
  BY <1>1, <1>2 DEF IInv, GraphSound
<1> QED
  BY <1>3, Invariant, PTL

(* An undisturbed rebuild commits what the sources mean.                   *)
LEMMA CommitExact ==
  ASSUME IInv, NEW p \in Proc, Commit(p), ~touched[p]
  PROVE  Exact(tables')
<1> DEFINE m == MergeMap(merges)
<1>1. tables' = work[p] /\ lock = p /\ agenda[p] = <<>>
  BY DEF Commit, IInv, Orders
<1>2. Left(p) = {}
  BY <1>1 DEF Left
<1>3. \A t \in Tables : tables'[t] = Rows(t, notes, merges) /\ (t = "nodes" => Untitled(notes) = {})
  BY <1>1, <1>2 DEF IInv, Undisturbed
<1>4. tables'["nodes"] = EntityNotes(notes)
  BY <1>3 DEF Tables, Rows, NodeRows, EntityNotes
<1>5. tables'["tasks"] = {i \in Ids : notes[i] # NoNote /\ notes[i].status /\ notes[i].titled}
  BY <1>3 DEF Tables, Rows, TaskRows
<1>6. tables'["edges"] = EdgeRows(notes, merges)
  BY <1>3 DEF Tables, Rows
<1>7. ASSUME Acyclic(m), NEW x \in Ids, NEW y \in Ids
      PROVE  (\E e \in tables'["edges"] : e.from = x /\ e.to = y) <=>
               (x # y /\ \E i \in EntityNotes(notes) : \E r \in notes[i].refs :
                     StandsFor(m, i, x) /\ StandsFor(m, r, y))
  <2>1. IsMap(m) /\ merges \in Seq(Merge)
    BY MergeMapIsMap, SizeAssumption DEF IInv, TypeOK
  <2>2. notes \in [Ids -> Note \cup {NoNote}]
    BY ChoiceAssumption DEF IInv, TypeOK
  <2>3. (\E e \in tables'["edges"] : e.from = x /\ e.to = y) <=> x # y /\ Refers(notes, m, x, y)
    BY <1>6, <2>1, <2>2, EdgeRowsExact
  <2>4. \A i \in EntityNotes(notes) : i \in Ids /\ \A r \in notes[i].refs : r \in Ids
    BY <2>2 DEF EntityNotes, Note
  <2> HIDE DEF m
  <2>5. \A i \in Ids : /\ StandsFor(m, i, x) <=> x = Resolve(m, i)
                       /\ StandsFor(m, i, y) <=> y = Resolve(m, i)
    BY <1>7, <2>1, ResolveStandsFor
  <2> QED
    BY <2>3, <2>4, <2>5 DEF Refers
<1> QED
  BY <1>4, <1>5, <1>7 DEF Exact

(* A rebuild between whose start and commit neither a note was edited nor  *)
(* a merge recorded, by whomever, commits a node for every entity note, a  *)
(* task for every titled note with a status and, merges being acyclic, the *)
(* edges between the entities that notes stand for (runRebuild).           *)
THEOREM RebuildsAreExact == Spec => RebuildExact
<1> DEFINE Undone == \A p \in Proc : Commit(p) /\ ~touched[p] => Exact(tables')
<1>1. IInv /\ [Next]_vars => [Undone]_vars
  BY CommitExact
<1>2. Spec => [][Undone]_vars
  BY <1>1, Invariant, PTL DEF Spec
<1> QED
  BY <1>2 DEF RebuildExact

=============================================================================
