------------------------------ MODULE EdgeProofs ------------------------------
(* Theorems about the two programs at the edge of the system that call its *)
(* commands from outside: Dashboard, for every number of requests,         *)
(* proposals, temporary files and starts of the server, and DriveScan, for *)
(* every number of files, contents and changes that people and other       *)
(* programs make.  The two share no name and no state.                     *)
EXTENDS Dashboard, DriveScan, TLAPS

(***************************************************************************)
(*                            The dashboard                                *)
(***************************************************************************)

-----------------------------------------------------------------------------
(* The inductive invariant.                                                *)

(* A request is under way only in a server that runs; before its first     *)
(* step it has nothing.                                                    *)
Served ==
  \A r \in Request :
    IF at[r] = "idle" THEN file[r] = Nothing /\ applied[r] = Nothing
                      ELSE server = "up" /\ message[r] \in Message

(* The response is out exactly from where only the removal is left.        *)
Counted ==
  \A r \in Request : replies[r] = IF at[r] \in {"clean", "over"} THEN 1 ELSE 0

Guarded(r) == message[r].kind \in Mutating /\ GuardPasses(message[r])

(* What each step has established of its message.                          *)
Passed ==
  \A r \in Request :
    /\ at[r] \in {"body", "write", "undo", "clean"} => Guarded(r)
    /\ at[r] \in {"dispatch", "answer"} => message[r].kind = "read" \/ Guarded(r)
    /\ at[r] \in {"write", "undo", "clean"} => message[r].kind = "accept"
    /\ at[r] \in {"route", "body", "write"} => file[r] = Nothing /\ applied[r] = Nothing
    /\ at[r] = "dispatch" => applied[r] = Nothing
    /\ at[r] \in {"write", "dispatch"} /\ message[r].kind \in Mutating =>
         message[r].body \in Proposal
    /\ file[r] # Nothing => message[r].kind = "accept"

(* The file a request still has to remove.                                 *)
Holds(r) == file[r] # Nothing /\ at[r] \in {"dispatch", "answer", "clean", "undo"}

(* Such a file is one request's alone, and has that request's proposal;    *)
(* an accept has one when its command starts.                              *)
Owned ==
  /\ \A r \in Request : Holds(r) =>
       /\ file[r] \in TmpFile
       /\ tmp[file[r]] = message[r].body
       /\ \A s \in Request : Holds(s) /\ file[s] = file[r] => s = r
  /\ \A r \in Request :
       at[r] \in {"dispatch", "answer", "clean"} /\ message[r].kind = "accept" => file[r] # Nothing

(* No other file is there, but for those that were left.                   *)
Kept ==
  \A f \in TmpFile : tmp[f] # Nothing => f \in left \/ \E r \in Request : Holds(r) /\ file[r] = f

ServerInv == ServerTypeOK /\ Served /\ Counted /\ Passed /\ Owned /\ Kept /\ WritesTrue

-----------------------------------------------------------------------------
(* The steps.                                                              *)

LEMMA ServerInitHolds == ServerInit => ServerInv
BY NameAssumption
DEF ServerInit, ServerInv, ServerTypeOK, Served, Counted, Passed, Owned, Holds, Kept, WritesTrue,
    WritesGuarded, AcceptsVerbatim, Stages

(* A request is routed, or refused before anything is done for it.         *)
LEMMA ServedStep ==
  ASSUME ServerInv, NEW r \in Request, Route(r) \/ Reject(r) \/ ReadBody(r) \/ RefuseBody(r)
  PROVE  ServerInv'
<1>1. ServerTypeOK'
  BY DEF ServerInv, ServerTypeOK, Counted, Stages, Route, Reject, ReadBody, RefuseBody,
         Answer, Moves
<1>2. Served'
  BY DEF ServerInv, ServerTypeOK, Served, Route, Reject, ReadBody, RefuseBody, Answer, Moves
<1>3. Counted'
  BY DEF ServerInv, ServerTypeOK, Counted, Route, Reject, ReadBody, RefuseBody, Answer, Moves
<1>4. Passed'
  BY DEF ServerInv, ServerTypeOK, Served, Passed, Mutating, Message, Guarded, GuardPasses, Route,
         Reject, ReadBody, RefuseBody, Answer, Moves
<1>5. Owned'
  BY DEF ServerInv, ServerTypeOK, Passed, Owned, Holds, Route, Reject, ReadBody, RefuseBody,
         Answer, Moves
<1>6. Kept'
  BY DEF ServerInv, ServerTypeOK, Holds, Kept, Route, Reject, ReadBody, RefuseBody, Answer, Moves
<1>7. WritesTrue'
  BY DEF ServerInv, WritesTrue, WritesGuarded, AcceptsVerbatim, Route, Reject, ReadBody,
         RefuseBody, Answer
<1> QED
  BY <1>1, <1>2, <1>3, <1>4, <1>5, <1>6, <1>7 DEF ServerInv

(* The proposal is written to a file of its own, or the write throws.      *)
LEMMA WrittenStep ==
  ASSUME ServerInv, NEW r \in Request, WriteTmp(r) \/ WriteFails(r)
  PROVE  ServerInv'
<1>1. ServerTypeOK'
  BY DEF ServerInv, ServerTypeOK, Passed, Stages, Mutating, WriteTmp, WriteFails, FreshFile,
         Moves
<1>2. Served'
  BY DEF ServerInv, ServerTypeOK, Served, WriteTmp, WriteFails, Moves
<1>3. Counted'
  BY DEF ServerInv, ServerTypeOK, Counted, WriteTmp, WriteFails, Moves
<1>4. Passed'
  BY DEF ServerInv, ServerTypeOK, Passed, Guarded, GuardPasses, WriteTmp, WriteFails, Moves
<1>5. Owned'
  BY NameAssumption
  DEF ServerInv, ServerTypeOK, Served, Passed, Owned, Holds, Message, WriteTmp, WriteFails,
      FreshFile, Moves
<1>6. Kept'
  BY NameAssumption DEF ServerInv, ServerTypeOK, Holds, Kept, WriteTmp, WriteFails, Moves
<1>7. WritesTrue'
  BY DEF ServerInv, ServerTypeOK, Passed, WritesTrue, WritesGuarded, AcceptsVerbatim, Guarded,
         GuardPasses, WriteTmp, WriteFails, Moves
<1> QED
  BY <1>1, <1>2, <1>3, <1>4, <1>5, <1>6, <1>7 DEF ServerInv

(* The command is given its proposal from the file, or throws.             *)
LEMMA CommandedStep ==
  ASSUME ServerInv, NEW r \in Request, Dispatch(r) \/ DispatchThrows(r)
  PROVE  ServerInv'
<1>1. ServerTypeOK'
  BY DEF ServerInv, ServerTypeOK, Passed, Owned, Stages, Dispatch, DispatchThrows, GivenTo, Moves
<1>2. Served'
  BY DEF ServerInv, ServerTypeOK, Served, Dispatch, DispatchThrows, Moves
<1>3. Counted'
  BY DEF ServerInv, ServerTypeOK, Counted, Dispatch, DispatchThrows, Moves
<1>4. Passed'
  BY DEF ServerInv, ServerTypeOK, Passed, Guarded, GuardPasses, Dispatch, DispatchThrows, Moves
<1>5. Owned'
  BY DEF ServerInv, ServerTypeOK, Owned, Holds, Dispatch, DispatchThrows, Moves
<1>6. Kept'
  BY DEF ServerInv, ServerTypeOK, Passed, Holds, Kept, Dispatch, DispatchThrows, Moves
<1>7. WritesTrue'
  BY DEF ServerInv, ServerTypeOK, Passed, Owned, Holds, WritesTrue, WritesGuarded,
         AcceptsVerbatim, Guarded, GuardPasses, Mutating, Dispatch, DispatchThrows,
         GivenTo, Moves
<1> QED
  BY <1>1, <1>2, <1>3, <1>4, <1>5, <1>6, <1>7 DEF ServerInv

(* The response is sent.                                                   *)
LEMMA AnsweredStep ==
  ASSUME ServerInv, NEW r \in Request, SendOutcome(r) \/ Fault(r)
  PROVE  ServerInv'
<1>1. ServerTypeOK'
  BY DEF ServerInv, ServerTypeOK, Counted, Stages, SendOutcome, Fault, Answer
<1>2. Served'
  BY DEF ServerInv, ServerTypeOK, Served, SendOutcome, Fault, Answer
<1>3. Counted'
  BY DEF ServerInv, ServerTypeOK, Counted, SendOutcome, Fault, Answer
<1>4. Passed'
  BY DEF ServerInv, ServerTypeOK, Passed, Guarded, GuardPasses, SendOutcome, Fault, Answer
<1>5. Owned'
  BY DEF ServerInv, ServerTypeOK, Owned, Holds, SendOutcome, Fault, Answer
<1>6. Kept'
  BY DEF ServerInv, ServerTypeOK, Passed, Holds, Kept, SendOutcome, Fault, Answer
<1>7. WritesTrue'
  BY DEF ServerInv, WritesTrue, WritesGuarded, AcceptsVerbatim, SendOutcome, Fault, Answer
<1> QED
  BY <1>1, <1>2, <1>3, <1>4, <1>5, <1>6, <1>7 DEF ServerInv

(* The temporary file is removed, or its removal fails after a fault.      *)
LEMMA RemovalStep ==
  ASSUME ServerInv, NEW r \in Request, Clean(r) \/ Undo(r)
  PROVE  ServerInv'
<1>1. ServerTypeOK'
  BY DEF ServerInv, ServerTypeOK, Stages, Clean, Undo, Removed, Moves
<1>2. Served'
  BY DEF ServerInv, ServerTypeOK, Served, Clean, Undo, Moves
<1>3. Counted'
  BY DEF ServerInv, ServerTypeOK, Counted, Clean, Undo, Moves
<1>4. Passed'
  BY DEF ServerInv, ServerTypeOK, Passed, Guarded, GuardPasses, Clean, Undo, Moves
<1>5. Owned'
  BY DEF ServerInv, ServerTypeOK, Owned, Holds, Clean, Undo, Removed, Moves
<1>6. Kept'
  BY DEF ServerInv, ServerTypeOK, Holds, Kept, Clean, Undo, Removed, Moves
<1>7. WritesTrue'
  BY DEF ServerInv, WritesTrue, WritesGuarded, AcceptsVerbatim, Clean, Undo
<1> QED
  BY <1>1, <1>2, <1>3, <1>4, <1>5, <1>6, <1>7 DEF ServerInv

(* A request comes in, or its exchange is over.                            *)
LEMMA ExchangeStep ==
  ASSUME ServerInv, NEW r \in Request, Send(r) \/ Over(r)
  PROVE  ServerInv'
<1>1. ServerTypeOK'
  BY DEF ServerInv, ServerTypeOK, Stages, Send, Over, Moves
<1>2. Served'
  BY DEF ServerInv, ServerTypeOK, Served, Send, Over, Moves
<1>3. Counted'
  BY DEF ServerInv, ServerTypeOK, Counted, Send, Over, Moves
<1>4. Passed'
  BY DEF ServerInv, ServerTypeOK, Served, Passed, Guarded, GuardPasses, Send, Over, Moves
<1>5. Owned'
  BY DEF ServerInv, ServerTypeOK, Owned, Holds, Send, Over, Moves
<1>6. Kept'
  BY DEF ServerInv, ServerTypeOK, Holds, Kept, Send, Over, Moves
<1>7. WritesTrue'
  BY DEF ServerInv, ServerTypeOK, Served, WritesTrue, WritesGuarded, AcceptsVerbatim, Send, Over,
         Moves
<1> QED
  BY <1>1, <1>2, <1>3, <1>4, <1>5, <1>6, <1>7 DEF ServerInv

(* The server starts, ends or crashes, or a page is opened.                *)
LEMMA ProcessStep ==
  ASSUME ServerInv, StartServer \/ StopServer \/ OpenPage \/ \E r \in Request : CleanFails(r)
  PROVE  ServerInv'
<1>1. ServerTypeOK'
  BY StartsAssumption
  DEF Token, ServerInv, ServerTypeOK, Stages, each, StartServer, Renewed, StopServer,
      OpenPage, CleanFails, Ends
<1>2. Served'
  BY DEF ServerInv, Served, each, StartServer, StopServer, OpenPage, CleanFails, Ends
<1>3. Counted'
  BY DEF ServerInv, Counted, each, StartServer, StopServer, OpenPage, CleanFails, Ends
<1>4. Passed'
  BY DEF ServerInv, Served, Passed, Guarded, GuardPasses, each, StartServer, StopServer,
         OpenPage, CleanFails, Ends
<1>5. Owned'
  BY DEF ServerInv, Owned, Holds, each, StartServer, StopServer, OpenPage, CleanFails, Ends
<1>6. Kept'
  BY DEF ServerInv, Holds, Kept, each, StartServer, StopServer, OpenPage, CleanFails, Ends
<1>7. WritesTrue'
  BY DEF ServerInv, Served, WritesTrue, WritesGuarded, AcceptsVerbatim, each, StartServer,
         StopServer, OpenPage, CleanFails, Ends
<1> QED
  BY <1>1, <1>2, <1>3, <1>4, <1>5, <1>6, <1>7 DEF ServerInv

LEMMA ServerInductive == ServerInv /\ [ServerNext]_serverVars => ServerInv'
<1> SUFFICES ASSUME ServerInv, [ServerNext]_serverVars
             PROVE  ServerInv'
  OBVIOUS
<1>1. CASE UNCHANGED serverVars
  BY <1>1
  DEF ServerInv, ServerTypeOK, Served, Counted, Passed, Owned, Holds, Kept, WritesTrue, WritesGuarded,
      AcceptsVerbatim, Guarded, GuardPasses, serverVars, each
<1>2. CASE StartServer \/ StopServer \/ OpenPage \/ \E r \in Request : CleanFails(r)
  BY <1>2, ProcessStep
<1>3. ASSUME NEW r \in Request, Send(r) \/ (Serve(r) /\ ~CleanFails(r))
      PROVE  ServerInv'
  <2>1. CASE Route(r) \/ Reject(r) \/ ReadBody(r) \/ RefuseBody(r)
    BY <2>1, ServedStep
  <2>2. CASE WriteTmp(r) \/ WriteFails(r)
    BY <2>2, WrittenStep
  <2>3. CASE Dispatch(r) \/ DispatchThrows(r)
    BY <2>3, CommandedStep
  <2>4. CASE SendOutcome(r) \/ Fault(r)
    BY <2>4, AnsweredStep
  <2>5. CASE Clean(r) \/ Undo(r)
    BY <2>5, RemovalStep
  <2>6. CASE Send(r) \/ Over(r)
    BY <2>6, ExchangeStep
  <2> QED
    BY <1>3, <2>1, <2>2, <2>3, <2>4, <2>5, <2>6 DEF Serve
<1> QED
  BY <1>1, <1>2, <1>3 DEF ServerNext

LEMMA ServerInvariant == ServerSpec => []ServerInv
<1>1. ServerInit => ServerInv
  BY ServerInitHolds
<1>2. ServerInv /\ [ServerNext]_serverVars => ServerInv'
  BY ServerInductive
<1> QED
  BY <1>1, <1>2, PTL DEF ServerSpec

-----------------------------------------------------------------------------
(* The theorems.                                                           *)

(* Whatever runs at the same time and whenever the server was started,     *)
(* what reaches the core has passed the guard of this start (server.ts:    *)
(* writeGuardPasses) and is the body of its own request (handleAccept).    *)
THEOREM WritesAreTrue == ServerSpec => []WritesTrue
<1>1. ServerInv => WritesTrue
  BY DEF ServerInv
<1> QED
  BY <1>1, ServerInvariant, PTL

(* Whichever steps fail, a request is answered once, and its temporary     *)
(* file goes with it unless the removal itself failed (handleAccept,       *)
(* startDashboard).                                                        *)
THEOREM RequestsEndClean == ServerSpec => []EndsClean
<1>1. ServerInv => AnsweredOnce
  BY DEF ServerInv, Counted, AnsweredOnce
<1>2. ServerInv => TmpOwned
  BY DEF ServerInv, Kept, Holds, TmpOwned
<1>3. ServerInv => EndsClean
  BY <1>1, <1>2 DEF ServerInv, EndsClean
<1> QED
  BY <1>3, ServerInvariant, PTL

(***************************************************************************)
(*                         The media scanner                               *)
(***************************************************************************)

-----------------------------------------------------------------------------
(* The inductive invariant.                                                *)

(* A scan that is at a file knows its name, and after hashing its content. *)
AtFile ==
  /\ pc \in {"hash", "marker", "look", "go", "promote"} => name \in Name
  /\ pc \in {"marker", "look", "go", "promote"} => id \in Media

(* Nobody takes the marker of a tour away, and no tour gets past it.       *)
ToursMarked == \A m \in tours : marker[m] = m
TourSkipped == pc \in {"look", "go", "promote"} => id \notin tours

(* A note is promoted only once it is captured.                            *)
Captured == pc = "promote" => raw[id] # None /\ raw[id].pointer = name

IInv == TypeOK /\ AtFile /\ ToursMarked /\ TourSkipped /\ Captured /\ FineIsIngested

(* What a step keeps of what was settled before it.                        *)
KeepsLedger == \A m \in Media : raw[m] # None => raw'[m] = raw[m]
KeepsTours == \A m \in tours : raw'[m] = raw[m]

-----------------------------------------------------------------------------
(* The steps.                                                              *)

LEMMA InitHolds == Init => IInv
BY NoneAssumption, BoundAssumption, FlagAssumption
DEF Init, IInv, TypeOK, AtFile, ToursMarked, TourSkipped, Captured, FineIsIngested, Locations

(* The inbox, the artifacts and the markers change.                        *)
LEMMA EnvironmentStep ==
  ASSUME IInv, Environment
  PROVE  IInv' /\ KeepsLedger /\ KeepsTours
<1>1. TypeOK'
  BY BoundAssumption
  DEF IInv, TypeOK, Environment, Sync, Rename, Deliver, DeliverCaptions, Mark, Change,
      scan, ledger, Transcript
<1>2. AtFile'
  BY DEF IInv, AtFile, Environment, Sync, Rename, Deliver, DeliverCaptions, Mark,
         Change, scan
<1>3. ToursMarked'
  BY DEF IInv, TypeOK, ToursMarked, Environment, Sync, Rename, Deliver,
         DeliverCaptions, Mark, Change, scan
<1>4. TourSkipped'
  BY DEF IInv, TourSkipped, Environment, Sync, Rename, Deliver, DeliverCaptions, Mark,
         Change, scan
<1>5. Captured'
  BY DEF IInv, Captured, Environment, Sync, Rename, Deliver, DeliverCaptions, Mark,
         Change, scan, ledger
<1>6. FineIsIngested'
  BY DEF IInv, FineIsIngested, Environment, Sync, Rename, Deliver, DeliverCaptions,
         Mark, Change, scan, ledger
<1>7. KeepsLedger
  BY DEF KeepsLedger, Environment, Sync, Rename, Deliver, DeliverCaptions, Mark,
         Change, ledger
<1>8. KeepsTours
  BY DEF KeepsTours, Environment, Sync, Rename, Deliver, DeliverCaptions, Mark,
         Change, ledger
<1> QED
  BY <1>1, <1>2, <1>3, <1>4, <1>5, <1>6, <1>7, <1>8 DEF IInv

(* A scan starts, goes to its next file, ends or is killed.                *)
LEMMA StartStep ==
  ASSUME IInv, StartScan \/ NextFile \/ EndScan \/ Kill
  PROVE  IInv' /\ KeepsLedger /\ KeepsTours
<1>1. TypeOK'
  BY BoundAssumption
  DEF IInv, TypeOK, Locations, StartScan, NextFile, EndScan, Kill, Goes, Present,
      store, scan, ledger
<1>2. AtFile'
  BY DEF IInv, TypeOK, AtFile, StartScan, NextFile, EndScan, Kill, Goes
<1>3. ToursMarked'
  BY DEF IInv, ToursMarked, StartScan, NextFile, EndScan, Kill, store, scan
<1>4. TourSkipped'
  BY DEF TourSkipped, StartScan, NextFile, EndScan, Kill, Goes
<1>5. Captured'
  BY DEF Captured, StartScan, NextFile, EndScan, Kill, Goes
<1>6. FineIsIngested'
  BY DEF IInv, FineIsIngested, StartScan, NextFile, EndScan, Kill, scan, ledger
<1>7. KeepsLedger
  BY DEF KeepsLedger, StartScan, NextFile, EndScan, Kill, ledger
<1>8. KeepsTours
  BY DEF KeepsTours, StartScan, NextFile, EndScan, Kill, ledger
<1> QED
  BY <1>1, <1>2, <1>3, <1>4, <1>5, <1>6, <1>7, <1>8 DEF IInv

(* A file is hashed, and its marker looked at.                             *)
LEMMA HashStep ==
  ASSUME IInv, Hash \/ HashFails \/ SkipVisual \/ NotVisual
  PROVE  IInv' /\ KeepsLedger /\ KeepsTours
<1>1. TypeOK'
  BY DEF IInv, TypeOK, AtFile, Locations, Hash, HashFails, SkipVisual, NotVisual,
         Leave, Goes, store, scan, ledger
<1>2. AtFile'
  BY DEF IInv, TypeOK, AtFile, Hash, HashFails, SkipVisual, NotVisual, Leave, Goes, scan
<1>3. ToursMarked'
  BY DEF IInv, ToursMarked, Hash, HashFails, SkipVisual, NotVisual, Leave, store, scan
<1>4. TourSkipped'
  BY DEF IInv, ToursMarked, TourSkipped, Hash, HashFails, SkipVisual, NotVisual,
         Marked, Leave, Goes, scan
<1>5. Captured'
  BY DEF Captured, Hash, HashFails, SkipVisual, NotVisual, Leave, Goes
<1>6. FineIsIngested'
  BY DEF IInv, FineIsIngested, Hash, HashFails, SkipVisual, NotVisual, Leave, scan,
         ledger
<1>7. KeepsLedger
  BY DEF KeepsLedger, Hash, HashFails, SkipVisual, NotVisual, ledger
<1>8. KeepsTours
  BY DEF KeepsTours, Hash, HashFails, SkipVisual, NotVisual, ledger
<1> QED
  BY <1>1, <1>2, <1>3, <1>4, <1>5, <1>6, <1>7, <1>8 DEF IInv

(* A transcript is looked for or made.                                     *)
LEMMA LookStep ==
  ASSUME IInv, Ready \/ Transcribe \/ NoTranscribing \/ Pending \/ DryRun
  PROVE  IInv' /\ KeepsLedger /\ KeepsTours
<1>1. TypeOK'
  BY DEF IInv, TypeOK, AtFile, Locations, Ready, Transcribe, NoTranscribing, Pending,
         DryRun, Leave, Goes, store, scan, ledger, Transcript
<1>2. AtFile'
  BY DEF IInv, AtFile, Ready, Transcribe, NoTranscribing, Pending, DryRun, Leave,
         Goes, scan
<1>3. ToursMarked'
  BY DEF IInv, ToursMarked, Ready, Transcribe, NoTranscribing, Pending, DryRun, Leave,
         store, scan
<1>4. TourSkipped'
  BY DEF IInv, TourSkipped, Ready, Transcribe, NoTranscribing, Pending, DryRun, Leave,
         Goes, scan
<1>5. Captured'
  BY DEF Captured, Ready, Transcribe, NoTranscribing, Pending, DryRun, Leave, Goes
<1>6. FineIsIngested'
  BY DEF IInv, FineIsIngested, Ready, Transcribe, NoTranscribing, Pending, DryRun,
         Leave, scan, ledger
<1>7. KeepsLedger
  BY DEF KeepsLedger, Ready, Transcribe, NoTranscribing, Pending, DryRun, ledger
<1>8. KeepsTours
  BY DEF KeepsTours, Ready, Transcribe, NoTranscribing, Pending, DryRun, ledger
<1> QED
  BY <1>1, <1>2, <1>3, <1>4, <1>5, <1>6, <1>7, <1>8 DEF IInv

(* A content is ingested for the first time.                               *)
LEMMA FreshStep ==
  ASSUME IInv, IngestFresh
  PROVE  IInv' /\ KeepsLedger /\ KeepsTours
<1>1. TypeOK'
  BY DEF IInv, TypeOK, AtFile, Locations, IngestFresh, Ingests, HasTranscript, Given,
         Entry, Leave, store, scan
<1>2. AtFile'
  BY DEF IInv, AtFile, IngestFresh, Ingests, Leave, scan
<1>3. ToursMarked'
  BY DEF IInv, ToursMarked, IngestFresh, Leave, store, scan
<1>4. TourSkipped'
  BY DEF IInv, TourSkipped, IngestFresh, Ingests, Leave, scan
<1>5. Captured'
  BY NoneAssumption
  DEF IInv, TypeOK, AtFile, Captured, IngestFresh, Ingests, HasTranscript, Given,
      Entry, Leave, scan
<1>6. FineIsIngested'
  BY NoneAssumption
  DEF IInv, TypeOK, AtFile, FineIsIngested, IngestFresh, Known, Ingests,
      HasTranscript, Given, Entry, Leave, scan
<1>7. KeepsLedger
  BY DEF KeepsLedger, IngestFresh, Known
<1>8. KeepsTours
  BY DEF IInv, TourSkipped, KeepsTours, IngestFresh, Ingests
<1> QED
  BY <1>1, <1>2, <1>3, <1>4, <1>5, <1>6, <1>7, <1>8 DEF IInv

(* A content is ingested again or not at all, or promoted.                 *)
LEMMA AgainStep ==
  ASSUME IInv, IngestSame \/ IngestConflicts \/ IngestFails \/ Promote \/ PromoteFails
  PROVE  IInv' /\ KeepsLedger /\ KeepsTours
<1>1. TypeOK'
  BY DEF IInv, TypeOK, AtFile, Locations, IngestSame, IngestConflicts, IngestFails,
         Promote, PromoteFails, Ingests, Leave, store, ledger
<1>2. AtFile'
  BY DEF AtFile, IngestSame, IngestConflicts, IngestFails, Promote, PromoteFails, Leave
<1>3. ToursMarked'
  BY DEF IInv, ToursMarked, IngestSame, IngestConflicts, IngestFails, Promote,
         PromoteFails, Leave, store
<1>4. TourSkipped'
  BY DEF TourSkipped, IngestSame, IngestConflicts, IngestFails, Promote, PromoteFails,
         Leave
<1>5. Captured'
  BY DEF Captured, IngestSame, IngestConflicts, IngestFails, Promote, PromoteFails,
         Leave
<1>6. FineIsIngested'
  BY DEF IInv, AtFile, Captured, FineIsIngested, IngestSame, IngestConflicts,
         IngestFails, Promote, PromoteFails, Same, Given, Known, Ingests, Leave,
         ledger
<1>7. KeepsLedger
  BY DEF KeepsLedger, IngestSame, IngestConflicts, IngestFails, Promote, PromoteFails,
         ledger
<1>8. KeepsTours
  BY DEF KeepsTours, IngestSame, IngestConflicts, IngestFails, Promote, PromoteFails,
         ledger
<1> QED
  BY <1>1, <1>2, <1>3, <1>4, <1>5, <1>6, <1>7, <1>8 DEF IInv

LEMMA Inductive == IInv /\ [Next]_vars => IInv' /\ KeepsLedger /\ KeepsTours
<1> SUFFICES ASSUME IInv, [Next]_vars
             PROVE  IInv' /\ KeepsLedger /\ KeepsTours
  OBVIOUS
<1>1. CASE UNCHANGED vars
  BY <1>1
  DEF IInv, TypeOK, AtFile, ToursMarked, TourSkipped, Captured, FineIsIngested, KeepsLedger,
      KeepsTours, vars, store, ledger, scan
<1>2. CASE Environment
  BY <1>2, EnvironmentStep
<1>3. CASE StartScan \/ NextFile \/ EndScan \/ Kill
  BY <1>3, StartStep
<1>4. CASE Hash \/ HashFails \/ SkipVisual \/ NotVisual
  BY <1>4, HashStep
<1>5. CASE Ready \/ Transcribe \/ NoTranscribing \/ Pending \/ DryRun
  BY <1>5, LookStep
<1>6. CASE IngestFresh
  BY <1>6, FreshStep
<1>7. CASE IngestSame \/ IngestConflicts \/ IngestFails \/ Promote \/ PromoteFails
  BY <1>7, AgainStep
<1> QED
  BY <1>1, <1>2, <1>3, <1>4, <1>5, <1>6, <1>7 DEF Next, Step

LEMMA Invariant == Spec => []IInv
<1>1. Init => IInv
  BY InitHolds
<1>2. IInv /\ [Next]_vars => IInv'
  BY Inductive
<1> QED
  BY <1>1, <1>2, PTL DEF Spec

-----------------------------------------------------------------------------
(* The theorems.                                                           *)

(* Whatever is synced, renamed and transcribed anew, and whenever scans    *)
(* are killed, a file that the scanner's summary counts as ingested is the *)
(* pointer of a raw note (media_drive_scan.sh, process_media).             *)
THEOREM SummaryIsTrue == Spec => []SummaryTrue
<1>1. IInv => SummaryTrue
  BY DEF IInv, SummaryTrue
<1> QED
  BY <1>1, Invariant, PTL

(* No step changes what was ingested of a content (runIngest, "fails       *)
(* closed"), or ingests a content that was marked as a room tour before    *)
(* the scan began.                                                         *)
THEOREM SettledIsKept == Spec => SettledStays
<1>1. IInv /\ [Next]_vars => [KeepsLedger]_vars /\ [KeepsTours]_vars
  BY Inductive
<1>2. Spec => [][KeepsLedger]_vars /\ [][KeepsTours]_vars
  BY <1>1, Invariant, PTL DEF Spec
<1> QED
  BY <1>2 DEF SettledStays, LedgerKept, ToursLeftAlone, KeepsLedger, KeepsTours

=============================================================================
