----------------------------- MODULE FactLedger -----------------------------
(***************************************************************************)
(* What the fact store promises, with no process, lock, file or            *)
(* transaction in it: facts are recorded once and for ever, each one       *)
(* correcting only a fact recorded before it; a reader's view holds        *)
(* recorded facts only; a confirmed fact is in the view; and the view may  *)
(* be thrown away and restored, but a restore leaves out neither what the  *)
(* view held nor anything ever confirmed.                                  *)
(***************************************************************************)
CONSTANTS FactIds, NoFact

Fact == [id : FactIds, supersedes : FactIds \cup {NoFact}]
Ids(S) == {f.id : f \in S}

VARIABLES
  recorded,   \* facts of the source of truth
  view,       \* facts a reader can see
  confirmed   \* ids a command reported as written

vars == <<recorded, view, confirmed>>

Init == recorded = {} /\ view = {} /\ confirmed = {}

Record(f) ==
  /\ f.id \notin Ids(recorded)
  /\ f.supersedes \in Ids(recorded) \cup {NoFact}
  /\ recorded' = recorded \cup {f}
  /\ UNCHANGED <<view, confirmed>>

Confirm(f) ==
  /\ f \in recorded
  /\ view' = view \cup {f}
  /\ confirmed' = confirmed \cup {f.id}
  /\ UNCHANGED recorded

Restore(S) ==
  /\ view \subseteq S
  /\ S \subseteq recorded
  /\ confirmed \subseteq Ids(S)
  /\ view' = S
  /\ UNCHANGED <<recorded, confirmed>>

Forget ==
  /\ view' = {}
  /\ UNCHANGED <<recorded, confirmed>>

Next ==
  \/ \E f \in Fact : Record(f) \/ Confirm(f)
  \/ \E S \in SUBSET recorded : Restore(S)
  \/ Forget

Spec == Init /\ [][Next]_vars
=============================================================================
