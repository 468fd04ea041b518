--------------------------- MODULE MCProjectionStore ---------------------------
(***************************************************************************)
(* ProjectionStore for TLC: a workspace with three directories, two event  *)
(* logs and two READMEs; before the first command there is nothing, a      *)
(* workspace with events, or one with an entry that is not in the plan or  *)
(* of the wrong kind.                                                      *)
(***************************************************************************)
EXTENDS ProjectionStore, TLC

MCDirs == <<"events", "db", "secure_refs">>
MCFiles == <<"events/capture_events.jsonl", "events/memory_events.jsonl",
             "README.md", "secure_refs/README.md">>
MCLogs == {"events/capture_events.jsonl", "events/memory_events.jsonl"}
MCParent ==
  ("events" :> "/") @@ ("db" :> "/") @@ ("secure_refs" :> "/") @@ ("README.md" :> "/")
    @@ ("notes.txt" :> "/") @@ ("events/capture_events.jsonl" :> "events")
    @@ ("events/memory_events.jsonl" :> "events") @@ ("secure_refs/README.md" :> "secure_refs")

NoWorkspace == [path \in {} |-> Dir]
Used == ("/" :> Dir) @@ ("events" :> Dir) @@ ("events/memory_events.jsonl" :> File(1)) @@ ("db" :> Dir)
MCDisks == {NoWorkspace, Used, ("/" :> Dir) @@ ("notes.txt" :> File(1)),
            ("/" :> Dir) @@ ("secure_refs" :> File(1)), "/" :> File(1)}

MCTables == <<"schema_version", "facts", "entity_edges">>
Whole(unique, versions, doubled) ==
  [tables |-> {"schema_version", "facts", "entity_edges"}, unique |-> unique, versions |-> versions,
   doubled |-> doubled]
MCOldStores == {Whole(FALSE, <<1, 1>>, FALSE), Whole(FALSE, <<1>>, TRUE),
                Whole(TRUE, <<2>>, FALSE), Whole(TRUE, <<3>>, FALSE), Whole(TRUE, <<Corrupt>>, FALSE)}

Symmetric == Permutations(Proc)
=============================================================================
