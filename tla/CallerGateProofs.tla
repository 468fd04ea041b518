--------------------------- MODULE CallerGateProofs ---------------------------
(* Theorems about Grants and CallerGate, for every set of apps, grant      *)
(* files and processes.                                                    *)
EXTENDS CallerGate, TLAPS

-----------------------------------------------------------------------------
(* Facts about scopes and grants.                                          *)

(* A sub-tree of the notes that is granted covers nothing that read:notes  *)
(* does not.                                                               *)
LEMMA NotesCoverSubtrees ==
  ASSUME NEW s \in Sub, NEW scope, ScopeMatches(<<"read", "notes", s>>, scope)
  PROVE  ScopeMatches(<<"read", "notes">>, scope)
<1>1. Len(<<"read", "notes", s>>) = 3 /\ Len(<<"read", "notes">>) = 2
  OBVIOUS
<1>2. 3 <= Len(scope)
  BY <1>1 DEF ScopeMatches
<1>3. "read" \in {"*", scope[1]} /\ "notes" \in {"*", scope[2]}
  BY <1>1 DEF ScopeMatches
<1>4. \A i \in 1..2 : <<"read", "notes">>[i] \in {"*", scope[i]}
  BY <1>3
<1> QED
  BY <1>1, <1>2, <1>4 DEF ScopeMatches

(* A scope of two segments covers itself.                                  *)
LEMMA PairMatches ==
  ASSUME NEW a, NEW b
  PROVE  ScopeMatches(<<a, b>>, <<a, b>>)
BY DEF ScopeMatches

(* No fixed scope is denied to everybody.                                  *)
LEMMA FixedNotDenied ==
  ASSUME NEW scope \in Fixed
  PROVE  ~Covers(AlwaysDenied, scope)
<1> SUFFICES ASSUME NEW pattern \in AlwaysDenied, ScopeMatches(pattern, scope)
             PROVE  FALSE
  BY DEF Covers
<1>1. PICK a, b : /\ scope = <<a, b>>
                  /\ ~(a = "write" /\ b = "raw")
                  /\ a # "delete"
                  /\ ~(a = "read" /\ b = "secure_refs")
  BY DEF Fixed
<1>2. PICK c, d : pattern = <<c, d>> /\ c # "*" /\ (d # "*" \/ c = "delete")
  BY DEF AlwaysDenied
<1>3. c = a /\ d \in {"*", b}
  BY <1>1, <1>2 DEF ScopeMatches
<1> QED
  BY <1>1, <1>2, <1>3 DEF AlwaysDenied

(* What the registry lists for a caller, the caller is allowed.            *)
LEMMA ListedIsAllowed ==
  ASSUME NEW c \in FirstParty, NEW scope \in Fixed, scope \in FirstPartyGrants[c].allow
  PROVE  GrantAllows(FirstPartyGrants[c], scope)
<1>1. FirstPartyGrants[c].deny = {}
  BY DEF FirstPartyGrants, FirstParty, Allowing
<1>2. ~Covers(AlwaysDenied, scope)
  BY FixedNotDenied
<1>3. ScopeMatches(scope, scope)
  BY PairMatches DEF Fixed
<1> QED
  BY <1>1, <1>2, <1>3 DEF GrantAllows, Covers

(* Whatever is not denied to everybody and is covered by a grantable scope *)
(* the shell may do.                                                       *)
LEMMA CliCoversGrantable ==
  ASSUME NEW pattern \in Grantable, NEW scope, ScopeMatches(pattern, scope)
  PROVE  Covers(FirstPartyGrants["cli"].allow, scope)
<1>1. FirstPartyGrants["cli"].allow = Fixed
  BY DEF FirstPartyGrants, FirstParty, Allowing
<1>2. CASE pattern \in Fixed
  BY <1>1, <1>2 DEF Covers
<1>3. CASE pattern \notin Fixed
  <2>1. PICK s \in Sub : pattern = <<"read", "notes", s>>
    BY <1>3 DEF Grantable
  <2>2. ScopeMatches(<<"read", "notes">>, scope)
    BY <2>1, NotesCoverSubtrees
  <2>3. <<"read", "notes">> \in Fixed
    BY DEF Fixed
  <2> QED
    BY <1>1, <2>2, <2>3 DEF Covers
<1> QED
  BY <1>2, <1>3

-----------------------------------------------------------------------------
(* Facts about grant files.                                                *)

(* A file that loads gives an app grantable scopes only.                   *)
LEMMA LoadedGrants ==
  ASSUME NEW f, LoadGrantConfig(f) # Rejected, NEW app \in Domain
  PROVE  /\ LoadGrantConfig(f)[app].allow \subseteq Grantable
         /\ LoadGrantConfig(f)[app].deny \subseteq Grantable
<1>1. CASE f.state = "missing"
  <2>1. LoadGrantConfig(f)[app] = NoGrant
    BY <1>1 DEF LoadGrantConfig
  <2> QED
    BY <2>1 DEF NoGrant, Allowing
<1>2. CASE f.state # "missing"
  <2>1. GoodFile(f) /\ LoadGrantConfig(f)[app] = Given(f, app)
    BY <1>2 DEF LoadGrantConfig
  <2>2. \A i \in 1..Len(f.grants) : /\ Elements(f.grants[i].allow) \subseteq Grantable
                                    /\ Elements(f.grants[i].deny) \subseteq Grantable
    BY <2>1 DEF GoodFile, GoodEntry, GoodScopes
  <2> QED
    BY <2>1, <2>2 DEF Given
<1> QED
  BY <1>1, <1>2

(* A file that lets an app do something is sound and has an entry for it.  *)
LEMMA AllowedByEntry ==
  ASSUME NEW f, LoadGrantConfig(f) # Rejected, NEW app \in Domain, NEW s0,
         GrantAllows(LoadGrantConfig(f)[app], s0)
  PROVE  /\ GoodFile(f)
         /\ \E i \in 1..Len(f.grants) :
              /\ f.grants[i].app = app
              /\ LoadGrantConfig(f)[app] =
                   [allow |-> Elements(f.grants[i].allow), deny |-> Elements(f.grants[i].deny)]
<1>1. f.state # "missing"
  <2> SUFFICES ASSUME f.state = "missing"
               PROVE  FALSE
    OBVIOUS
  <2>1. LoadGrantConfig(f)[app].allow = {}
    BY DEF LoadGrantConfig, NoGrant, Allowing
  <2> QED
    BY <2>1 DEF GrantAllows, Covers
<1>2. GoodFile(f) /\ LoadGrantConfig(f)[app] = Given(f, app)
  BY <1>1 DEF LoadGrantConfig
<1>3. PICK pattern \in Given(f, app).allow : ScopeMatches(pattern, s0)
  BY <1>2 DEF GrantAllows, Covers
<1>4. PICK i \in 1..Len(f.grants) : f.grants[i].app = app
  BY <1>3 DEF Given
<1>5. \A j \in 1..Len(f.grants) : f.grants[j].app = app => j = i
  <2> SUFFICES ASSUME NEW j \in 1..Len(f.grants), f.grants[j].app = app
               PROVE  j = i
    OBVIOUS
  <2> DEFINE A == Apps(f.grants)
  <2>1. Distinct(A)
    BY <1>2 DEF GoodFile
  <2>2. Len(A) = Len(f.grants) /\ A[i] = app /\ A[j] = app
    BY <1>4 DEF Apps
  <2> QED
    BY <2>1, <2>2 DEF Distinct
<1>6. {k \in 1..Len(f.grants) : f.grants[k].app = app} = {i}
  BY <1>4, <1>5
<1>7. Given(f, app) = [allow |-> Elements(f.grants[i].allow), deny |-> Elements(f.grants[i].deny)]
  BY <1>6 DEF Given
<1> QED
  BY <1>2, <1>4, <1>7

(* No grant file makes an app more powerful than the shell (ConfinedToCli: *)
(* resolveGrant, parseGrantConfig and grantAllows together).               *)
THEOREM NeverAboveCli == Spec => []ConfinedToCli
<1>1. ConfinedToCli
  <2> SUFFICES ASSUME LoadGrantConfig(file) # Rejected,
                      NEW app \in Domain, NEW scope \in Scope,
                      GrantAllows(ResolveGrant(app, LoadGrantConfig(file)), scope)
               PROVE  GrantAllows(FirstPartyGrants["cli"], scope)
    BY DEF ConfinedToCli
  <2> DEFINE G == ResolveGrant(app, LoadGrantConfig(file))
  <2>1. G = LoadGrantConfig(file)[app] \/ G = NoGrant
    BY CallerAssumption DEF ResolveGrant
  <2>2. G.allow \subseteq Grantable
    BY <2>1, LoadedGrants DEF NoGrant, Allowing
  <2>3. PICK pattern \in Grantable : ScopeMatches(pattern, scope)
    BY <2>2 DEF GrantAllows, Covers
  <2>4. Covers(FirstPartyGrants["cli"].allow, scope)
    BY <2>3, CliCoversGrantable
  <2>5. FirstPartyGrants["cli"].deny = {}
    BY DEF FirstPartyGrants, FirstParty, Allowing
  <2> QED
    BY <2>4, <2>5 DEF GrantAllows, Covers
<1> QED
  BY <1>1, PTL

-----------------------------------------------------------------------------
(* The inductive invariant.  While a command of an app is checked and at   *)
(* work, its grants are what the file as of its dispatch loads to; at work *)
(* it has been permitted; and all that a workflow has left is what its     *)
(* caller runs.                                                            *)

Loaded == \A p \in Proc : pc[p] \in {"enforce", "work"} =>
  /\ caller[p] \in Domain => /\ LoadGrantConfig(asof[p]) # Rejected
                             /\ config[p] = LoadGrantConfig(asof[p])
  /\ caller[p] \notin Domain => config[p] = None
Admitted == \A p \in Proc : Working(p) => Permitted(p)
Parts(c) == {s \in Commands :
  /\ c = "surface:obsidian-helper" => s \in {"note list", "note get", "capture"}
  /\ c = "surface:media-intake" =>
       s \in {"note list", "note get", "secref add", "capture", "note promote"}
  /\ c = "surface:dashboard" => s \in Viewing}
Queued == \A p \in Proc : pc[p] # "idle" => todo[p] \in Seq(Parts(caller[p]))

IInv == TypeOK /\ Loaded /\ Admitted /\ Queued

(* What each command enforces.                                             *)
LEMMA EnforcedTable ==
  /\ Enforced("capture") = {<<"write", "capture">>}
  /\ \A c \in {"note list", "note get", "distill propose", "secref list"} :
       Enforced(c) = {<<"read", "notes">>}
  /\ Enforced("note promote") = {<<"write", "notes">>}
  /\ Enforced("distill accept") = {<<"write", "distill">>}
  /\ Enforced("fact list") = {<<"read", "facts">>}
  /\ \A c \in {"fact add", "fact accept"} : Enforced(c) = {<<"write", "facts">>}
  /\ Enforced("secref add") = {<<"write", "secure_refs">>}
  /\ Enforced("output create") = {<<"write", "outputs">>}
  /\ Enforced("rebuild") = {<<"rebuild", "projections">>}
  /\ Enforced("index") = {<<"write", "index">>}
  /\ Enforced("query") = {<<"read", "index">>}
<1>1. Enforced("capture") = {<<"write", "capture">>}
  BY DEF Enforced, Contract
<1>2. \A c \in {"note list", "note get", "distill propose", "secref list"} :
        Enforced(c) = {<<"read", "notes">>}
  BY DEF Enforced, Contract
<1>3. Enforced("note promote") = {<<"write", "notes">>}
  BY DEF Enforced
<1>4. Enforced("distill accept") = {<<"write", "distill">>}
  BY DEF Enforced, Contract
<1>5. Enforced("fact list") = {<<"read", "facts">>}
  BY DEF Enforced, Contract
<1>6. \A c \in {"fact add", "fact accept"} : Enforced(c) = {<<"write", "facts">>}
  BY DEF Enforced, Contract
<1>7. Enforced("secref add") = {<<"write", "secure_refs">>}
  BY DEF Enforced
<1>8. Enforced("output create") = {<<"write", "outputs">>}
  BY DEF Enforced, Contract
<1>9. Enforced("rebuild") = {<<"rebuild", "projections">>}
  BY DEF Enforced, Contract
<1>10. Enforced("index") = {<<"write", "index">>}
  BY DEF Enforced, Contract
<1>11. Enforced("query") = {<<"read", "index">>}
  BY DEF Enforced, Contract
<1> QED
  BY <1>1, <1>2, <1>3, <1>4, <1>5, <1>6, <1>7, <1>8, <1>9, <1>10, <1>11

(* Every command enforces something, and only fixed scopes.                *)
LEMMA EnforcedSome ==
  ASSUME NEW command \in Commands
  PROVE  Enforced(command) # {} /\ Enforced(command) \subseteq Fixed
<1>1. Enforced(command) # {}
  BY EnforcedTable DEF Commands
<1>2. Enforced(command) \subseteq Fixed
  BY EnforcedTable DEF Commands, Fixed
<1> QED
  BY <1>1, <1>2

(* What each caller runs.                                                  *)
LEMMA WorkflowsTable ==
  /\ Workflows("surface:obsidian-helper") = {<<"note list", "note get">>, <<"capture">>}
  /\ Workflows("surface:media-intake") =
       {<<"note list", "note get", "secref add", "capture", "note promote">>}
  /\ Workflows("surface:dashboard") = Single(Viewing)
  /\ \A c \in {"cli", "sidecar:retrieval"} \cup Stranger : Workflows(c) = Single(Commands)
  /\ \A c \in Domain : Workflows(c) =
       Single(Commands) \cup {<<"fact list", "note list", "note get">>, <<"capture", "note promote">>}
<1>1. Workflows("surface:obsidian-helper") = {<<"note list", "note get">>, <<"capture">>}
  BY CallerAssumption DEF Workflows, FirstParty
<1>2. Workflows("surface:media-intake") =
        {<<"note list", "note get", "secref add", "capture", "note promote">>}
  BY CallerAssumption DEF Workflows, FirstParty
<1>3. Workflows("surface:dashboard") = Single(Viewing)
  BY CallerAssumption DEF Workflows, FirstParty
<1>4. \A c \in {"cli", "sidecar:retrieval"} \cup Stranger : Workflows(c) = Single(Commands)
  BY CallerAssumption DEF Workflows, FirstParty
<1>5. \A c \in Domain : Workflows(c) =
        Single(Commands) \cup {<<"fact list", "note list", "note get">>, <<"capture", "note promote">>}
  BY CallerAssumption DEF Workflows, FirstParty
<1> QED
  BY <1>1, <1>2, <1>3, <1>4, <1>5

(* Short series of elements of a set.                                      *)
LEMMA Series ==
  /\ \A T : \A x \in T : <<x>> \in Seq(T) /\ <<x>> # <<>>
  /\ \A T : \A x, y \in T : <<x, y>> \in Seq(T) /\ <<x, y>> # <<>>
  /\ \A T : \A x, y, z \in T : <<x, y, z>> \in Seq(T) /\ <<x, y, z>> # <<>>
  /\ \A T : \A x, y, z, u, v \in T : <<x, y, z, u, v>> \in Seq(T) /\ <<x, y, z, u, v>> # <<>>
<1>1. \A T : \A x \in T : <<x>> \in Seq(T) /\ <<x>> # <<>>
  OBVIOUS
<1>2. \A T : \A x, y \in T : <<x, y>> \in Seq(T) /\ <<x, y>> # <<>>
  OBVIOUS
<1>3. \A T : \A x, y, z \in T : <<x, y, z>> \in Seq(T) /\ <<x, y, z>> # <<>>
  OBVIOUS
<1>4. \A T : \A x, y, z, u, v \in T : <<x, y, z, u, v>> \in Seq(T) /\ <<x, y, z, u, v>> # <<>>
  OBVIOUS
<1> QED
  BY <1>1, <1>2, <1>3, <1>4

(* A workflow is a series of what its caller runs, and is not empty.       *)
LEMMA WorkflowParts ==
  ASSUME NEW c \in Caller, NEW w \in Workflows(c)
  PROVE  w \in Seq(Parts(c)) /\ w # <<>>
<1>2. CASE c = "surface:obsidian-helper"
  <2> DEFINE T == Parts(c)
  <2>1. "note list" \in T /\ "note get" \in T /\ "capture" \in T
    BY <1>2 DEF Parts, Commands
  <2> HIDE DEF T
  <2>2. <<"note list", "note get">> \in Seq(T) /\ <<"note list", "note get">> # <<>>
    BY <2>1, Series
  <2>3. <<"capture">> \in Seq(T) /\ <<"capture">> # <<>>
    BY <2>1, Series
  <2>4. w = <<"note list", "note get">> \/ w = <<"capture">>
    BY <1>2, WorkflowsTable
  <2>5. w \in Seq(T) /\ w # <<>>
    BY <2>2, <2>3, <2>4
  <2> QED
    BY <2>5 DEF T
<1>3. CASE c = "surface:media-intake"
  <2> DEFINE T == Parts(c)
             v == <<"note list", "note get", "secref add", "capture", "note promote">>
  <2>1. /\ "note list" \in T /\ "note get" \in T /\ "secref add" \in T
        /\ "capture" \in T /\ "note promote" \in T
    BY <1>3 DEF Parts, Commands
  <2> HIDE DEF T
  <2>2. v \in Seq(T) /\ v # <<>>
    BY <2>1, Series
  <2>3. w = v
    BY <1>3, WorkflowsTable
  <2> QED
    BY <2>2, <2>3 DEF T
<1>4. CASE c = "surface:dashboard"
  <2>1. PICK x \in Viewing : w = <<x>>
    BY <1>4, WorkflowsTable DEF Single
  <2>2. x \in Parts(c)
    BY <1>4 DEF Parts, Commands, Viewing
  <2> QED
    BY Series, <2>1, <2>2
<1>5. CASE c \notin {"surface:obsidian-helper", "surface:media-intake", "surface:dashboard"}
  <2>1. Parts(c) = Commands
    BY <1>5 DEF Parts
  <2>2. CASE w \in Single(Commands)
    <3>1. PICK x \in Commands : w = <<x>>
      BY <2>2 DEF Single
    <3> QED
      BY Series, <2>1, <3>1
  <2>3. CASE w \in {<<"fact list", "note list", "note get">>, <<"capture", "note promote">>}
    <3>1. /\ "fact list" \in Commands /\ "note list" \in Commands /\ "note get" \in Commands
          /\ "capture" \in Commands /\ "note promote" \in Commands
      BY DEF Commands
    <3>2. /\ <<"fact list", "note list", "note get">> \in Seq(Commands)
          /\ <<"fact list", "note list", "note get">> # <<>>
      BY <3>1, Series
    <3>3. <<"capture", "note promote">> \in Seq(Commands) /\ <<"capture", "note promote">> # <<>>
      BY <3>1, Series
    <3>4. w \in Seq(Commands) /\ w # <<>>
      BY <2>3, <3>2, <3>3
    <3> QED
      BY <2>1, <3>4
  <2>4. \/ c \in {"cli", "sidecar:retrieval"} \cup Stranger
        \/ c \in Domain
    BY <1>5 DEF Caller, FirstParty
  <2> QED
    BY <2>2, <2>3, <2>4, WorkflowsTable
<1> QED
  BY <1>2, <1>3, <1>4, <1>5

(* The registry serves all that a surface or the shell runs.               *)
LEMMA RegistryServes ==
  ASSUME NEW c \in FirstParty \ {"sidecar:retrieval"}, NEW command \in Parts(c)
  PROVE  \A scope \in Enforced(command) : GrantAllows(FirstPartyGrants[c], scope)
<1> DEFINE K == FirstPartyGrants[c].allow
<1>1. command \in Commands
  BY DEF Parts
<1>2. SUFFICES Enforced(command) \subseteq K
  BY <1>1, EnforcedSome, ListedIsAllowed
<1>3. CASE c = "cli"
  <2>1. K = Fixed
    BY <1>3 DEF FirstPartyGrants, FirstParty, Allowing
  <2> QED
    BY <2>1, <1>1, EnforcedSome
<1>4. CASE c = "surface:obsidian-helper"
  <2>1. K = {<<"write", "capture">>, <<"read", "notes">>}
    BY <1>4 DEF FirstPartyGrants, FirstParty, Allowing, Read, Write
  <2>2. command \in {"note list", "note get", "capture"}
    BY <1>4 DEF Parts
  <2> QED
    BY <2>1, <2>2, EnforcedTable
<1>5. CASE c = "surface:media-intake"
  <2>1. K = {<<"write", s>> : s \in {"capture", "notes", "secure_refs"}} \cup {<<"read", "notes">>}
    BY <1>5 DEF FirstPartyGrants, FirstParty, Allowing, Read, Write
  <2>2. command \in {"note list", "note get", "secref add", "capture", "note promote"}
    BY <1>5 DEF Parts
  <2> QED
    BY <2>1, <2>2, EnforcedTable
<1>6. CASE c = "surface:dashboard"
  <2>1. K = {<<"read", s>> : s \in {"notes", "facts", "index"}}
              \cup {<<"write", s>> : s \in {"capture", "distill", "facts"}}
    BY <1>6 DEF FirstPartyGrants, FirstParty, Allowing, Read, Write
  <2>2. command \in Viewing
    BY <1>6 DEF Parts
  <2> QED
    BY <2>1, <2>2, EnforcedTable DEF Viewing
<1> QED
  BY <1>3, <1>4, <1>5, <1>6 DEF FirstParty

(* What a file loads to has the type of the grants.                        *)
LEMMA LoadedType ==
  ASSUME NEW f, LoadGrantConfig(f) # Rejected
  PROVE  LoadGrantConfig(f) \in [Domain -> [allow : SUBSET Grantable, deny : SUBSET Grantable]]
<1>1. \A app \in Domain : /\ LoadGrantConfig(f)[app].allow \subseteq Grantable
                          /\ LoadGrantConfig(f)[app].deny \subseteq Grantable
  BY LoadedGrants
<1>2. CASE f.state = "missing"
  BY <1>2 DEF LoadGrantConfig, NoGrant, Allowing
<1>3. CASE f.state # "missing"
  <2>1. LoadGrantConfig(f) = [app \in Domain |-> Given(f, app)]
    BY <1>3 DEF LoadGrantConfig
  <2>2. \A app \in Domain : Given(f, app) \in [allow : SUBSET Grantable, deny : SUBSET Grantable]
    BY <1>1, <2>1 DEF Given
  <2> QED
    BY <2>1, <2>2
<1> QED
  BY <1>2, <1>3

-----------------------------------------------------------------------------
(* The induction.                                                          *)

(* Nobody runs anything yet.                                               *)
LEMMA InitIInv == Init => IInv
<1> SUFFICES ASSUME Init
             PROVE  IInv
  OBVIOUS
<1> USE DEF Init
<1>1. <<>> \in Seq(Commands)
  OBVIOUS
<1>2. TypeOK
  BY <1>1, FileAssumption DEF TypeOK, Locations
<1>3. Loaded /\ Admitted /\ Queued
  BY DEF Loaded, Admitted, Working, Queued
<1> QED
  BY <1>2, <1>3 DEF IInv

(* The rest of a workflow.                                                 *)
LEMMA Rest ==
  ASSUME NEW S, NEW w \in Seq(S), w # <<>>
  PROVE  /\ Head(w) \in S /\ Tail(w) \in Seq(S)
         /\ Len(w) # 1 => Tail(w) # <<>>
<1>1. Len(w) \in Nat /\ Len(w) # 0
  OBVIOUS
<1>2. Head(w) \in S
  BY <1>1
<1>3. Tail(w) \in Seq(S)
  OBVIOUS
<1>4. Len(Tail(w)) = Len(w) - 1
  BY <1>1
<1>5. Len(w) # 1 => Tail(w) # <<>>
  BY <1>1, <1>4
<1> QED
  BY <1>2, <1>3, <1>5

(* Going on to the next command keeps the invariant.                       *)
LEMMA AdvanceKeeps ==
  ASSUME IInv, NEW p \in Proc, pc[p] # "idle", Advance(p)
  PROVE  IInv'
<1> USE DEF IInv
<1> DEFINE w == todo[p]
<1>1. /\ w # <<>> /\ w \in Seq(Commands) /\ w \in Seq(Parts(caller[p]))
  BY DEF TypeOK, Queued
<1>2. /\ Tail(w) \in Seq(Commands) /\ Tail(w) \in Seq(Parts(caller[p]))
      /\ Len(w) # 1 => Tail(w) # <<>>
  BY <1>1, Rest
<1>3. /\ pc' \in [Proc -> Locations] /\ todo' \in [Proc -> Seq(Commands)]
      /\ todo'[p] = Tail(w) /\ pc'[p] \in {"idle", "dispatch"}
      /\ pc'[p] # "idle" => Len(w) # 1
      /\ \A q \in Proc \ {p} : pc'[q] = pc[q] /\ todo'[q] = todo[q]
  BY <1>2 DEF Advance, TypeOK, Locations
<1>4. TypeOK'
  BY <1>2, <1>3 DEF TypeOK, Advance
<1>5. Loaded'
  BY <1>3 DEF Loaded, Advance
<1>6. Admitted'
  BY <1>3 DEF Admitted, Working, Permitted, Command, Advance
<1>7. Queued'
  BY <1>2, <1>3 DEF Queued, Advance
<1> QED
  BY <1>4, <1>5, <1>6, <1>7

(* Stopping, or resting after a stop, keeps it too.                        *)
LEMMA StopKeeps ==
  ASSUME IInv, NEW p \in Proc, pc[p] # "idle", NEW how \in {"idle", "denied", "failed"}, Stop(p, how)
  PROVE  IInv'
<1> USE DEF IInv
<1>1. /\ pc' \in [Proc -> Locations] /\ pc'[p] = how
      /\ \A q \in Proc \ {p} : pc'[q] = pc[q]
  BY DEF Stop, TypeOK, Locations
<1>2. TypeOK'
  BY <1>1 DEF TypeOK, Stop
<1>3. Loaded'
  BY <1>1 DEF Loaded, Stop
<1>4. Admitted'
  BY <1>1 DEF Admitted, Working, Permitted, Command, Stop
<1>5. Queued'
  BY <1>1 DEF Queued, Stop
<1> QED
  BY <1>2, <1>3, <1>4, <1>5

(* Every step keeps the invariant.                                         *)
LEMMA NextIInv == IInv /\ [Next]_vars => IInv'
<1> SUFFICES ASSUME IInv, [Next]_vars
             PROVE  IInv'
  OBVIOUS
<1>1. CASE Save
  <2>1. file' \in File /\ UNCHANGED mine
    BY <1>1 DEF Save
  <2>2. TypeOK'
    BY <2>1 DEF IInv, TypeOK, mine
  <2>3. Loaded' /\ Admitted' /\ Queued'
    BY <2>1 DEF IInv, Loaded, Admitted, Working, Permitted, Command, Queued, mine
  <2> QED
    BY <2>2, <2>3 DEF IInv
<1>2. ASSUME NEW p \in Proc, Start(p)
      PROVE  IInv'
  <2>1. PICK c \in Caller : \E w \in Workflows(c) :
          /\ caller' = [caller EXCEPT ![p] = c]
          /\ todo' = [todo EXCEPT ![p] = w]
    BY <1>2 DEF Start
  <2>2. PICK w \in Workflows(c) : /\ caller' = [caller EXCEPT ![p] = c]
                                 /\ todo' = [todo EXCEPT ![p] = w]
    BY <2>1
  <2>3. w \in Seq(Parts(c)) /\ w # <<>>
    BY WorkflowParts
  <2>4. w \in Seq(Commands)
    <3>1. Parts(c) \subseteq Commands
      BY DEF Parts
    <3> QED
      BY <2>3, <3>1
  <2>5. /\ pc' \in [Proc -> Locations] /\ pc'[p] = "dispatch"
        /\ \A q \in Proc \ {p} : /\ pc'[q] = pc[q] /\ caller'[q] = caller[q] /\ todo'[q] = todo[q]
                              /\ config'[q] = config[q] /\ asof'[q] = asof[q]
        /\ caller'[p] = c /\ todo'[p] = w
    BY <1>2, <2>2 DEF Start, Goes, IInv, TypeOK, Locations
  <2>6. TypeOK'
    BY <1>2, <2>2, <2>3, <2>4, <2>5 DEF Start, IInv, TypeOK
  <2>7. Loaded'
    BY <2>5 DEF IInv, Loaded
  <2>8. Admitted'
    BY <2>5 DEF IInv, Admitted, Working, Permitted, Command
  <2>9. Queued'
    BY <2>3, <2>5 DEF IInv, Queued
  <2> QED
    BY <2>6, <2>7, <2>8, <2>9 DEF IInv
<1>3. ASSUME NEW p \in Proc, Dispatch(p)
      PROVE  IInv'
  <2> DEFINE g == IF Reads(caller[p]) THEN LoadGrantConfig(file) ELSE None
  <2>1. /\ pc[p] = "dispatch" /\ pc' \in [Proc -> Locations] /\ pc'[p] = "enforce"
        /\ config' = [config EXCEPT ![p] = g] /\ asof' = [asof EXCEPT ![p] = file]
        /\ UNCHANGED <<file, caller, todo>>
        /\ \A q \in Proc \ {p} : pc'[q] = pc[q] /\ config'[q] = config[q] /\ asof'[q] = asof[q]
    BY <1>3 DEF Dispatch, Goes, IInv, TypeOK, Locations
  <2>2. caller[p] \in Domain => LoadGrantConfig(file) # Rejected
    BY <1>3 DEF Dispatch, Reads
  <2>3. g \in [Domain -> [allow : SUBSET Grantable, deny : SUBSET Grantable]] \cup {None}
    BY <2>2, LoadedType DEF Reads
  <2>4. TypeOK'
    <3> HIDE DEF g
    <3> QED
      BY <2>1, <2>3 DEF IInv, TypeOK
  <2>5. config'[p] = g /\ asof'[p] = file
    BY <2>1 DEF IInv, TypeOK
  <2>6. Loaded'
    BY <2>1, <2>2, <2>5 DEF IInv, Loaded, Reads
  <2>7. Admitted'
    <3> HIDE DEF g
    <3> QED
      BY <2>1 DEF IInv, Admitted, Working, Permitted, Command
  <2>8. Queued'
    <3> HIDE DEF g
    <3> QED
      BY <2>1 DEF IInv, Queued
  <2> QED
    BY <2>4, <2>6, <2>7, <2>8 DEF IInv
<1>4. ASSUME NEW p \in Proc, FailDispatch(p)
      PROVE  IInv'
  BY <1>4, AdvanceKeeps, StopKeeps DEF FailDispatch
<1>5. ASSUME NEW p \in Proc, Enforce(p)
      PROVE  IInv'
  <2>1. /\ pc[p] = "enforce" /\ pc' \in [Proc -> Locations] /\ pc'[p] = "work" /\ Permitted(p)
        /\ UNCHANGED <<file, caller, todo, config, asof>>
        /\ \A q \in Proc \ {p} : pc'[q] = pc[q]
    BY <1>5 DEF Enforce, Goes, IInv, TypeOK, Locations
  <2>2. TypeOK'
    BY <2>1 DEF IInv, TypeOK
  <2>3. Loaded'
    BY <2>1 DEF IInv, Loaded
  <2>4. Admitted'
    BY <2>1 DEF IInv, Admitted, Working, Permitted, Command
  <2>5. Queued'
    BY <2>1 DEF IInv, Queued
  <2> QED
    BY <2>2, <2>3, <2>4, <2>5 DEF IInv
<1>6. ASSUME NEW p \in Proc, Deny(p)
      PROVE  IInv'
  BY <1>6, AdvanceKeeps, StopKeeps DEF Deny
<1>7. ASSUME NEW p \in Proc, Work(p)
      PROVE  IInv'
  BY <1>7, AdvanceKeeps DEF Work
<1>8. ASSUME NEW p \in Proc, Fail(p)
      PROVE  IInv'
  BY <1>8, AdvanceKeeps, StopKeeps DEF Fail
<1>9. ASSUME NEW p \in Proc, Return(p)
      PROVE  IInv'
  BY <1>9, StopKeeps DEF Return
<1>10. CASE UNCHANGED vars
  BY <1>10 DEF IInv, TypeOK, Loaded, Admitted, Working, Permitted, Command, Queued, vars
<1> QED
  BY <1>1, <1>2, <1>3, <1>4, <1>5, <1>6, <1>7, <1>8, <1>9, <1>10 DEF Next

(* The invariant holds throughout.                                         *)
THEOREM Inductive == Spec => []IInv
BY InitIInv, NextIInv, PTL DEF Spec

(* Every variable has its type.                                            *)
THEOREM TypeCorrect == Spec => []TypeOK
<1>1. IInv => TypeOK
  BY DEF IInv
<1> QED
  BY Inductive, <1>1, PTL

(* A command at work beyond the first parties has its own app's entry in a *)
(* sound file, as it was at its dispatch, to thank (OnOwnGrant: main() and *)
(* enforceScope).                                                          *)
THEOREM WorksOnOwnGrant == Spec => []OnOwnGrant
<1>1. IInv => OnOwnGrant
  <2> SUFFICES ASSUME IInv, NEW p \in Proc, Working(p), caller[p] \notin FirstParty
               PROVE  /\ GoodFile(asof[p])
                      /\ \E i \in 1..Len(asof[p].grants) :
                           LET e == asof[p].grants[i]
                           IN /\ e.app = caller[p]
                              /\ \A scope \in Enforced(Command(p)) :
                                   /\ Covers(Elements(e.allow), scope)
                                   /\ ~Covers(Elements(e.deny), scope)
    BY DEF OnOwnGrant
  <2> DEFINE G == ResolveGrant(caller[p], config[p])
             L == LoadGrantConfig(asof[p])
  <2>1. pc[p] = "work" /\ Permitted(p)
    BY DEF IInv, Admitted, Working
  <2>2. todo[p] \in Seq(Commands) /\ todo[p] # <<>>
    BY <2>1 DEF IInv, TypeOK
  <2>3. Command(p) \in Commands
    BY <2>2, Rest DEF Command
  <2>4. PICK s0 \in Enforced(Command(p)) : TRUE
    BY <2>3, EnforcedSome
  <2>5. \A scope \in Enforced(Command(p)) : GrantAllows(G, scope)
    BY <2>1 DEF Permitted
  <2>6. G # NoGrant
    BY <2>4, <2>5 DEF GrantAllows, Covers, NoGrant, Allowing
  <2>7. caller[p] \in Domain
    BY <2>6 DEF ResolveGrant
  <2>8. L # Rejected /\ config[p] = L
    BY <2>1, <2>7 DEF IInv, Loaded
  <2>9. G = L[caller[p]]
    BY <2>6, <2>7, <2>8 DEF ResolveGrant
  <2>10. \A scope \in Enforced(Command(p)) : GrantAllows(L[caller[p]], scope)
    BY <2>5, <2>9
  <2> HIDE DEF G, L
  <2>11. /\ GoodFile(asof[p])
         /\ \E i \in 1..Len(asof[p].grants) :
              /\ asof[p].grants[i].app = caller[p]
              /\ L[caller[p]] = [allow |-> Elements(asof[p].grants[i].allow),
                                 deny |-> Elements(asof[p].grants[i].deny)]
    BY <2>4, <2>7, <2>8, <2>10, AllowedByEntry DEF L
  <2> QED
    BY <2>10, <2>11 DEF GrantAllows
<1> QED
  BY Inductive, <1>1, PTL

(* What each store is owned by.                                            *)
LEMMA OwnerTable ==
  /\ \A s \in {"raw", "capture log"} : Owner(s) = {<<"write", "capture">>}
  /\ Owner("inbox") = {<<"write", "notes">>}
  /\ Owner("wiki") = {<<"write", "distill">>}
  /\ Owner("outputs") = {<<"write", "outputs">>}
  /\ Owner("secure refs") = {<<"write", "secure_refs">>}
  /\ Owner("memory log") = {<<"write", "distill">>, <<"write", "facts">>, <<"write", "outputs">>}
  /\ Owner("projections") = {<<"write", "facts">>, <<"rebuild", "projections">>}
  /\ Owner("projection log") = {<<"rebuild", "projections">>, <<"write", "index">>}
  /\ Owner("index") = {<<"write", "index">>}
  /\ Owner("schema") = {<<"read", "facts">>, <<"write", "facts">>,
                        <<"write", "outputs">>, <<"rebuild", "projections">>}
BY DEF Owner

(* No command is meant to write to a store that none of the scopes it      *)
(* enforces owns.                                                          *)
LEMMA WritesEnforced ==
  ASSUME NEW command \in Commands, NEW store \in Writes(command)
  PROVE  \E scope \in Owner(store) : scope \in Enforced(command)
<1>1. CASE command = "capture"
  BY <1>1, OwnerTable, EnforcedTable DEF Writes
<1>2. CASE command = "note promote"
  BY <1>2, OwnerTable, EnforcedTable DEF Writes
<1>3. CASE command = "distill accept"
  BY <1>3, OwnerTable, EnforcedTable DEF Writes
<1>4. CASE command \in {"fact add", "fact accept"}
  BY <1>4, OwnerTable, EnforcedTable DEF Writes
<1>5. CASE command = "secref add"
  BY <1>5, OwnerTable, EnforcedTable DEF Writes
<1>6. CASE command = "output create"
  BY <1>6, OwnerTable, EnforcedTable DEF Writes
<1>7. CASE command = "rebuild"
  BY <1>7, OwnerTable, EnforcedTable DEF Writes
<1>8. CASE command = "index"
  BY <1>8, OwnerTable, EnforcedTable DEF Writes
<1>9. CASE command \in {"note list", "note get", "distill propose", "fact list", "secref list", "query"}
  BY <1>9 DEF Writes
<1> QED
  BY <1>1, <1>2, <1>3, <1>4, <1>5, <1>6, <1>7, <1>8, <1>9 DEF Commands

(* Nor does it open the projection store without a scope to use it.        *)
LEMMA OpeningEnforced ==
  ASSUME NEW command \in Opening
  PROVE  \E scope \in Owner("schema") : scope \in Enforced(command)
<1>1. CASE command = "fact list"
  BY <1>1, OwnerTable, EnforcedTable
<1>2. CASE command \in {"fact add", "fact accept"}
  BY <1>2, OwnerTable, EnforcedTable
<1>3. CASE command = "output create"
  BY <1>3, OwnerTable, EnforcedTable
<1>4. CASE command = "rebuild"
  BY <1>4, OwnerTable, EnforcedTable
<1> QED
  BY <1>1, <1>2, <1>3, <1>4 DEF Opening

(* So every store that a command changes is owned by a scope it enforces.  *)
LEMMA ChangesEnforced ==
  ASSUME NEW command \in Commands, NEW store \in Changes(command)
  PROVE  \E scope \in Owner(store) : scope \in Enforced(command)
<1>1. store \in Writes(command) \/ (store = "schema" /\ command \in Opening)
  BY DEF Changes
<1> QED
  BY <1>1, WritesEnforced, OpeningEnforced

(* A caller changes only stores that a scope it has been granted owns      *)
(* (ChangesOwned: the handlers' enforceScope calls before their writes and *)
(* before the projection store is opened).                                 *)
THEOREM WritesAreOwned == Spec => []ChangesOwned
<1>1. IInv => ChangesOwned
  <2> SUFFICES ASSUME IInv, NEW p \in Proc, Working(p), NEW store \in Changes(Command(p))
               PROVE  \E scope \in Owner(store) : GrantAllows(ResolveGrant(caller[p], config[p]), scope)
    BY DEF ChangesOwned
  <2>1. pc[p] = "work" /\ Permitted(p)
    BY DEF IInv, Admitted, Working
  <2>2. todo[p] \in Seq(Commands) /\ todo[p] # <<>>
    BY <2>1 DEF IInv, TypeOK
  <2>3. Command(p) \in Commands
    BY <2>2, Rest DEF Command
  <2>4. PICK scope \in Owner(store) : scope \in Enforced(Command(p))
    BY <2>3, ChangesEnforced
  <2> QED
    BY <2>1, <2>4 DEF Permitted
<1> QED
  BY Inductive, <1>1, PTL

(* No surface is ever denied what its own code invokes (SurfacesServed:    *)
(* FIRST_PARTY_GRANTS against the surfaces' calls).                        *)
THEOREM SurfacesAreServed == Spec => []SurfacesServed
<1>1. IInv => SurfacesServed
  <2> SUFFICES ASSUME IInv, NEW p \in Proc, pc[p] = "enforce",
                      caller[p] \in FirstParty \ {"sidecar:retrieval"}
               PROVE  Permitted(p)
    BY DEF SurfacesServed
  <2>1. todo[p] \in Seq(Parts(caller[p])) /\ todo[p] # <<>>
    BY DEF IInv, Queued, TypeOK
  <2>2. Command(p) \in Parts(caller[p])
    BY <2>1, Rest DEF Command
  <2>3. \A scope \in Enforced(Command(p)) : GrantAllows(FirstPartyGrants[caller[p]], scope)
    BY <2>2, RegistryServes
  <2> QED
    BY <2>3 DEF Permitted, ResolveGrant
<1> QED
  BY Inductive, <1>1, PTL
=============================================================================
