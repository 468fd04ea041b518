-------------------------------- MODULE Grants --------------------------------
(***************************************************************************)
(* Scopes, grants and the workspace's grant file (packages/interfaces).    *)
(*                                                                         *)
(* A scope is the sequence of its colon-separated segments.  A grant file  *)
(* is what a person has saved at config/grants.json: possibly nothing,     *)
(* possibly not JSON, possibly JSON of the wrong shape.                    *)
(***************************************************************************)
EXTENDS Integers, Sequences

CONSTANTS
  Domain,         \* ids of domain apps, domain-app:<name>
  Stranger,       \* other callers: skills, unknown names
  Sub,            \* note sub-trees a scope may name
  Rejected,       \* what loading a faulty grant file yields
  None

FirstParty == {"cli", "sidecar:retrieval", "surface:obsidian-helper",
               "surface:media-intake", "surface:dashboard"}
Caller == FirstParty \cup Domain \cup Stranger

ASSUME CallerAssumption == /\ Domain \cap FirstParty = {}
                           /\ Stranger \cap (FirstParty \cup Domain) = {}
ASSUME SubAssumption == "*" \notin Sub

-----------------------------------------------------------------------------
(* Scopes.                                                                 *)

(* Each segment of the pattern is a wildcard or the scope's own; a shorter *)
(* pattern covers the whole sub-tree.                                      *)
ScopeMatches(pattern, scope) ==
  /\ Len(pattern) <= Len(scope)
  /\ \A i \in 1..Len(pattern) : pattern[i] \in {"*", scope[i]}

Covers(patterns, scope) == \E pattern \in patterns : ScopeMatches(pattern, scope)

AlwaysDenied == {<<"write", "raw">>, <<"delete", "*">>, <<"read", "secure_refs">>}

(* grantAllows: the hard denials, then the grant's own, then what it allows. *)
GrantAllows(grant, scope) ==
  /\ ~Covers(AlwaysDenied, scope)
  /\ ~Covers(grant.deny, scope)
  /\ Covers(grant.allow, scope)

(* The scopes that a grant file may name.                                  *)
Fixed ==
  {<<"write", s>> : s \in {"capture", "distill", "facts", "outputs", "notes",
                           "secure_refs", "index"}}
    \cup {<<"read", s>> : s \in {"facts", "index", "notes"}}
    \cup {<<"rebuild", "projections">>, <<"append", "events">>}
Grantable_AnySub == Fixed \cup {<<"read", s>> : s \in Sub}
Grantable == Fixed \cup {<<"read", "notes", s>> : s \in Sub}

-----------------------------------------------------------------------------
(* The registry of first-party callers.                                    *)

Allowing(scopes) == [allow |-> scopes, deny |-> {}]
NoGrant == Allowing({})

Write(names) == {<<"write", s>> : s \in names}
Read(names) == {<<"read", s>> : s \in names}

FirstPartyGrants_NoBridge ==
  [c \in FirstParty |->
     CASE c = "cli" -> Allowing(Fixed)
       [] c = "sidecar:retrieval" -> Allowing(Read({"notes", "index"}) \cup Write({"index"}))
       [] c = "surface:obsidian-helper" -> Allowing(Write({"capture"}) \cup Read({"notes"}))
       [] c = "surface:media-intake" ->
            Allowing(Write({"capture", "secure_refs"}) \cup Read({"notes"}))
       [] c = "surface:dashboard" ->
            Allowing(Read({"notes", "facts", "index"}) \cup Write({"capture", "distill", "facts"}))]
FirstPartyGrants ==
  [c \in FirstParty |->
     CASE c = "cli" -> Allowing(Fixed)
       [] c = "sidecar:retrieval" -> Allowing(Read({"notes", "index"}) \cup Write({"index"}))
       [] c = "surface:obsidian-helper" -> Allowing(Write({"capture"}) \cup Read({"notes"}))
       [] c = "surface:media-intake" ->
            Allowing(Write({"capture", "notes", "secure_refs"}) \cup Read({"notes"}))
       [] c = "surface:dashboard" ->
            Allowing(Read({"notes", "facts", "index"}) \cup Write({"capture", "distill", "facts"}))]

-----------------------------------------------------------------------------
(* The grant file.  A list is None when the value is something else.       *)

NoFile == [state |-> "missing"]
Unreadable == [state |-> "unreadable"]
Garbage == [state |-> "garbage"]
Json(version, extra, grants) ==
  [state |-> "json", version |-> version, extra |-> extra, grants |-> grants]
Entry(app, allow, deny) == [app |-> app, extra |-> FALSE, allow |-> allow, deny |-> deny]

Elements(list) == {list[i] : i \in 1..Len(list)}
Distinct(list) == \A i, j \in 1..Len(list) : list[i] = list[j] => i = j

(* parseScopeList accepts a list of distinct grantable scopes.             *)
GoodScopes(list) == list # None /\ Elements(list) \subseteq Grantable /\ Distinct(list)

(* parseEntry: an app outside the domain apps' name space, first-party ids *)
(* among them, an unknown key or a bad list.                               *)
GoodEntry(e) ==
  /\ ~e.extra
  /\ e.app \in Domain
  /\ GoodScopes(e.allow)
  /\ GoodScopes(e.deny)

Apps(grants) == [i \in 1..Len(grants) |-> grants[i].app]

(* parseGrantConfig: one fault anywhere rejects the whole file.            *)
GoodFile(f) ==
  /\ f.state = "json"
  /\ ~f.extra
  /\ f.version = 1
  /\ f.grants # None
  /\ \A i \in 1..Len(f.grants) : GoodEntry(f.grants[i])
  /\ Distinct(Apps(f.grants))

(* The grant that a file gives an app; a repeated app has been rejected.   *)
Given(f, app) ==
  LET own == {i \in 1..Len(f.grants) : f.grants[i].app = app}
  IN [allow |-> UNION {Elements(f.grants[i].allow) : i \in own},
      deny |-> UNION {Elements(f.grants[i].deny) : i \in own}]

(* loadGrantConfig: no file grants nothing, any fault is an error.         *)
LoadGrantConfig(f) ==
  IF f.state = "missing" THEN [app \in Domain |-> NoGrant]
  ELSE IF GoodFile(f) THEN [app \in Domain |-> Given(f, app)]
  ELSE Rejected

(* resolveGrant: the registry first, then the file for domain apps.        *)
ResolveGrant(caller, config) ==
  IF caller \in FirstParty THEN FirstPartyGrants[caller]
  ELSE IF caller \in Domain /\ config # None THEN config[caller]
  ELSE NoGrant
=============================================================================
