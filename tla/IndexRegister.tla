---------------------------- MODULE IndexRegister ----------------------------
(***************************************************************************)
(* What `index' and `query' promise, with no sidecar, file or timeout in   *)
(* it: the index is a register that holds a version of the vault.  It is   *)
(* replaced in one step and never taken away; a query is answered with     *)
(* what it held at one moment during the query; and what `index' reports   *)
(* is in it.  Of builds that overlap only the first two are promised.      *)
(***************************************************************************)
EXTENDS Naturals

CONSTANTS
  Readers,     \* who queries
  Versions     \* the versions that the vault can have, numbers from 0

VARIABLES
  vault,     \* version of the vault
  current,   \* the version that the index is of, as a set: none or one
  told,      \* versions that events tell of
  assured,   \* the index is of this version or a later one
  asking,    \* readers with a query under way
  view,      \* the version that a query has found, if any
  answer,    \* the version that it is answered from, if any
  loose      \* builds have overlapped

vars == <<vault, current, told, assured, asking, view, answer, loose>>

Init ==
  /\ vault = 0 /\ current = {} /\ told = {} /\ assured = 0
  /\ asking = {} /\ view = [q \in Readers |-> {}] /\ answer = [q \in Readers |-> {}]
  /\ loose = FALSE

Edit ==
  /\ vault' = vault + 1
  /\ UNCHANGED <<current, told, assured, asking, view, answer, loose>>

Build(v) ==
  /\ loose \/ v \in assured..vault
  /\ current' = {v}
  /\ UNCHANGED <<vault, told, assured, asking, view, answer, loose>>

(* An event of a build; whoever asks from now on is assured of version w.  *)
Confirm(v, w) ==
  /\ w >= assured
  /\ loose \/ (current = {v} /\ w <= v)
  /\ told' = told \cup {v}
  /\ assured' = w
  /\ UNCHANGED <<vault, current, asking, view, answer, loose>>

Ask(q) ==
  /\ q \notin asking
  /\ asking' = asking \cup {q}
  /\ UNCHANGED <<vault, current, told, assured, view, answer, loose>>

Look(q) ==
  /\ q \in asking /\ view[q] = {} /\ answer[q] = {}
  /\ current # {}
  /\ view' = [view EXCEPT ![q] = current]
  /\ UNCHANGED <<vault, current, told, assured, asking, answer, loose>>

Reply(q) ==
  /\ view[q] # {}
  /\ answer' = [answer EXCEPT ![q] = view[q]]
  /\ view' = [view EXCEPT ![q] = {}]
  /\ UNCHANGED <<vault, current, told, assured, asking, loose>>

Fail(q) ==
  /\ view' = [view EXCEPT ![q] = {}]
  /\ UNCHANGED <<vault, current, told, assured, asking, answer, loose>>

Leave(q) ==
  /\ asking' = asking \ {q}
  /\ view' = [view EXCEPT ![q] = {}]
  /\ answer' = [answer EXCEPT ![q] = {}]
  /\ UNCHANGED <<vault, current, told, assured, loose>>

Overlap ==
  /\ loose' = TRUE
  /\ UNCHANGED <<vault, current, told, assured, asking, view, answer>>

Next ==
  \/ Edit \/ Overlap
  \/ \E v \in Versions : Build(v) \/ \E w \in Versions : Confirm(v, w)
  \/ \E q \in Readers : Ask(q) \/ Look(q) \/ Reply(q) \/ Fail(q) \/ Leave(q)

Spec == Init /\ [][Next]_vars
=============================================================================
