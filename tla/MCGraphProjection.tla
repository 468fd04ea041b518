--------------------------- MODULE MCGraphProjection ---------------------------
(***************************************************************************)
(* GraphProjection for TLC.                                                *)
(***************************************************************************)
EXTENDS GraphProjection, TLC

Entity(titled) == [entity |-> TRUE, titled |-> titled, status |-> FALSE, refs |-> {3}]
Task == [entity |-> FALSE, titled |-> TRUE, status |-> TRUE, refs |-> {}]

(* Two entities refer to a third that is no note yet: once the two are     *)
(* merged their edges coincide, and merged with the third they become      *)
(* edges of an entity to itself.  An edit may remove or add an entity, or  *)
(* take away its title, or make it a task.                                 *)
Choices == {NoNote, Entity(TRUE), Entity(FALSE), Task}
SomeVaults == {<<Entity(TRUE), Entity(TRUE), NoNote>>}

Symmetric == Permutations(Proc)
=============================================================================
