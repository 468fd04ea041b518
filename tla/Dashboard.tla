------------------------------- MODULE Dashboard -------------------------------
(***************************************************************************)
(* The dashboard's HTTP server (apps/dashboard/src/server.ts).             *)
(*                                                                         *)
(* One process serves many requests at once: each is an asynchronous chain *)
(* of awaits, and any of them may run between two steps of another.  What  *)
(* a request asks of the core is one command, run through main() and       *)
(* atomic here (FactStore and VaultFlow take it apart).  A proposal goes   *)
(* to its command through a file in the system's temporary directory.      *)
(***************************************************************************)
EXTENDS Naturals

CONSTANTS
  Request,      \* requests at one time
  Proposal,     \* what a body may hold
  Invalid,      \* a body that is not what the route takes
  Nothing,
  MaxStarts,    \* bound: how often the server is started
  TmpFile       \* names of temporary files

Token == 1..MaxStarts

ASSUME StartsAssumption == MaxStarts \in Nat \ {0}
ASSUME NameAssumption == /\ Invalid \notin Proposal
                         /\ Nothing \notin Proposal \cup {Invalid} \cup TmpFile \cup Token

Kinds == {"read", "misused", "capture", "accept"}
Mutating == {"capture", "accept"}
Message == [kind : Kinds, token : Token \cup {Nothing}, own : BOOLEAN,
            body : Proposal \cup {Invalid}]

VARIABLES
  server,    \* whether the server runs
  nonce,     \* its write-guard token: the number of its start
  page,      \* the token that an open page has
  at,        \* where each request is
  message,   \* what it says
  file,      \* its temporary file
  tmp,       \* the temporary directory
  applied,   \* what its command has been given, Nothing before or when refused
  replies,   \* how many responses it has had
  left       \* history: files that a request could not remove or was cut off from

each == <<at, message, file, applied, replies>>
serverVars == <<server, nonce, page, tmp, left, each>>

ServerInit ==
  /\ server = "stopped"
  /\ nonce = Nothing
  /\ page = Nothing
  /\ at = [r \in Request |-> "idle"]
  /\ message = [r \in Request |-> Nothing]
  /\ file = [r \in Request |-> Nothing]
  /\ tmp = [f \in TmpFile |-> Nothing]
  /\ applied = [r \in Request |-> Nothing]
  /\ replies = [r \in Request |-> 0]
  /\ left = {}

-----------------------------------------------------------------------------
(* The process.                                                            *)

(* Every start draws a token of its own.                                   *)
Renewed == IF nonce = Nothing THEN 1 ELSE nonce + 1

StartServer ==
  /\ server # "up"
  /\ nonce # MaxStarts
  /\ server' = "up"
  /\ nonce' = Renewed
  /\ UNCHANGED <<page, tmp, left, each>>

(* The process ends, and with it every request under way.                  *)
Ends(how) ==
  /\ server' = how
  /\ at' = [r \in Request |-> "idle"]
  /\ message' = [r \in Request |-> Nothing]
  /\ file' = [r \in Request |-> Nothing]
  /\ applied' = [r \in Request |-> Nothing]
  /\ replies' = [r \in Request |-> 0]
  /\ left' = left \cup {f \in TmpFile : tmp[f] # Nothing}
  /\ UNCHANGED <<nonce, page, tmp>>

StopServer == server = "up" /\ Ends("stopped")

(* A page loads, and fetches the token from /api/session.                  *)
OpenPage ==
  /\ server = "up"
  /\ page' = nonce
  /\ UNCHANGED <<server, nonce, tmp, left, each>>

-----------------------------------------------------------------------------
(* A request.                                                              *)

Moves(r, here, there) == at[r] = here /\ at' = [at EXCEPT ![r] = there]

(* The page sends what it has; a tool may send anything but a token that   *)
(* it was never given.                                                     *)
Send(r) ==
  /\ server = "up"
  /\ Moves(r, "idle", "route")
  /\ \E m \in Message :
       /\ m.token \in {page, Nothing}
       /\ message' = [message EXCEPT ![r] = m]
  /\ UNCHANGED <<server, nonce, page, tmp, left, file, applied, replies>>

(* A response is sent, and the request goes on to another step or is over. *)
Answer(r, next) ==
  /\ at' = [at EXCEPT ![r] = next]
  /\ replies' = [replies EXCEPT ![r] = @ + 1]
  /\ UNCHANGED <<server, nonce, page, left, message, file, applied>>

(* The response is out, and nothing of the request is left.                *)
Over(r) ==
  /\ Moves(r, "over", "idle")
  /\ message' = [message EXCEPT ![r] = Nothing]
  /\ file' = [file EXCEPT ![r] = Nothing]
  /\ applied' = [applied EXCEPT ![r] = Nothing]
  /\ replies' = [replies EXCEPT ![r] = 0]
  /\ UNCHANGED <<server, nonce, page, tmp, left>>

(* writeGuardPasses: the server's own token, and if the client names an    *)
(* origin, the server's own.                                               *)
GuardPasses(m) == m.token = nonce /\ m.own

(* The routes: an unknown one or a wrong method is refused, a read goes to *)
(* its command, and a mutation must pass the guard before its body is read.*)
Route(r) ==
  /\ at[r] = "route"
  /\ message[r].kind = "read" \/ (message[r].kind \in Mutating /\ GuardPasses(message[r]))
  /\ Moves(r, "route", IF message[r].kind = "read" THEN "dispatch" ELSE "body")
  /\ UNCHANGED <<server, nonce, page, tmp, left, message, file, applied, replies>>

Reject(r) ==
  /\ at[r] = "route"
  /\ \/ message[r].kind = "misused"
     \/ message[r].kind \in Mutating /\ ~GuardPasses(message[r])
  /\ Answer(r, "over")
  /\ UNCHANGED tmp

ReadBody(r) ==
  /\ at[r] = "body"
  /\ message[r].body # Invalid
  /\ at' = [at EXCEPT ![r] = IF message[r].kind = "accept" THEN "write" ELSE "dispatch"]
  /\ UNCHANGED <<server, nonce, page, tmp, left, message, file, applied, replies>>

(* Too large, cut off, not JSON, or without a field it needs.              *)
RefuseBody(r) ==
  /\ at[r] = "body"
  /\ message[r].body = Invalid
  /\ Answer(r, "over")
  /\ UNCHANGED tmp

-----------------------------------------------------------------------------
(* handleAccept.                                                           *)

(* The name is random: none that exists.                                   *)
FreshFile_Shared == {CHOOSE f \in TmpFile : TRUE}
FreshFile == {f \in TmpFile : tmp[f] = Nothing}

WriteTmp(r) ==
  /\ Moves(r, "write", "dispatch")
  /\ \E f \in FreshFile :
       /\ tmp' = [tmp EXCEPT ![f] = message[r].body]
       /\ file' = [file EXCEPT ![r] = f]
  /\ UNCHANGED <<server, nonce, page, left, message, applied, replies>>

(* The write throws; what was written is still to be removed.              *)
WriteFails(r) ==
  /\ Moves(r, "write", "undo")
  /\ UNCHANGED <<server, nonce, page, tmp, left, message, file, applied, replies>>

(* The command reads the proposal from its file, and applies it whole or   *)
(* refuses it; a capture has its content on the command line.              *)
GivenTo(r) == IF message[r].kind = "accept" THEN tmp[file[r]] ELSE message[r].body

Dispatch(r) ==
  /\ Moves(r, "dispatch", "answer")
  /\ \/ message[r].kind \in Mutating /\ applied' = [applied EXCEPT ![r] = GivenTo(r)]
     \/ UNCHANGED applied   \* a read, or refused
  /\ UNCHANGED <<server, nonce, page, tmp, left, message, file, replies>>

DispatchThrows(r) ==
  /\ at[r] = "dispatch"
  /\ Moves(r, "dispatch", IF message[r].kind = "accept" THEN "undo" ELSE "fault")
  /\ UNCHANGED <<server, nonce, page, tmp, left, message, file, applied, replies>>

(* The outcome is sent; an accept still has its file to remove, whatever   *)
(* the outcome was.                                                        *)
SendOutcome_Return(r) ==
  /\ at[r] = "answer"
  /\ Answer(r, IF message[r].kind = "accept" /\ applied[r] # Nothing THEN "clean" ELSE "over")
  /\ UNCHANGED tmp
SendOutcome(r) ==
  /\ at[r] = "answer"
  /\ Answer(r, IF message[r].kind = "accept" THEN "clean" ELSE "over")
  /\ UNCHANGED tmp

Removed(r) == IF file[r] = Nothing THEN tmp ELSE [tmp EXCEPT ![file[r]] = Nothing]

Clean(r) ==
  /\ Moves(r, "clean", "over")
  /\ tmp' = Removed(r)
  /\ UNCHANGED <<server, nonce, page, left, message, file, applied, replies>>

(* The removal throws after the response: the handler of last resort sends *)
(* a second one, which throws where nothing catches it.                    *)
CleanFails(r) ==
  /\ at[r] = "clean"
  /\ Ends("crashed")

(* The removal after a fault; a failure of its own is one fault more.      *)
Undo(r) ==
  /\ Moves(r, "undo", "fault")
  /\ \/ tmp' = Removed(r) /\ UNCHANGED left
     \/ file[r] # Nothing /\ left' = left \cup {file[r]} /\ UNCHANGED tmp
     \/ file[r] = Nothing /\ UNCHANGED <<tmp, left>>
  /\ UNCHANGED <<server, nonce, page, message, file, applied, replies>>

(* route.catch: 500.                                                       *)
Fault_Silent(r) ==
  /\ Moves(r, "fault", "over")
  /\ UNCHANGED <<server, nonce, page, tmp, left, message, file, applied, replies>>
Fault(r) ==
  /\ at[r] = "fault"
  /\ Answer(r, "over")
  /\ UNCHANGED tmp

Serve(r) ==
  \/ Route(r) \/ Reject(r) \/ ReadBody(r) \/ RefuseBody(r)
  \/ WriteTmp(r) \/ WriteFails(r) \/ Dispatch(r) \/ DispatchThrows(r)
  \/ SendOutcome(r) \/ Clean(r) \/ CleanFails(r) \/ Undo(r) \/ Fault(r)
  \/ Over(r)

ServerNext ==
  \/ StartServer \/ StopServer \/ OpenPage
  \/ \E r \in Request : Send(r) \/ Serve(r)

ServerSpec == ServerInit /\ [][ServerNext]_serverVars

(* The event loop goes on with every request that is under way.            *)
FairServerSpec == ServerSpec /\ \A r \in Request : WF_serverVars(Serve(r))

-----------------------------------------------------------------------------
(* Properties.                                                             *)

Stages == {"idle", "route", "body", "write", "dispatch", "answer", "clean", "undo", "fault", "over"}

(* Every variable has its type.                                            *)
ServerTypeOK ==
  /\ server \in {"stopped", "up", "crashed"}
  /\ nonce \in Token \cup {Nothing}
  /\ page \in Token \cup {Nothing}
  /\ at \in [Request -> Stages]
  /\ message \in [Request -> Message \cup {Nothing}]
  /\ file \in [Request -> TmpFile \cup {Nothing}]
  /\ tmp \in [TmpFile -> Proposal \cup {Nothing}]
  /\ applied \in [Request -> Proposal \cup {Nothing}]
  /\ replies \in [Request -> 0..1]
  /\ left \subseteq TmpFile

(* "A rejected request performs zero filesystem writes": the core is given *)
(* something to write, and a temporary file is written, only for a message *)
(* with the token of this very start of the server and an origin of its    *)
(* own; a page that was open before a restart changes nothing.             *)
WritesGuarded ==
  \A r \in Request : (applied[r] # Nothing \/ file[r] # Nothing) =>
    /\ message[r].kind \in Mutating
    /\ message[r].token = nonce
    /\ message[r].own

(* "The human-reviewed proposal is passed verbatim": the core is given the *)
(* body of the request and no other, whatever other requests run.          *)
AcceptsVerbatim ==
  \A r \in Request : applied[r] # Nothing => applied[r] = message[r].body

(* What reaches the core is what this page's user reviewed: a request that *)
(* passed the guard, and its own body.                                     *)
WritesTrue == WritesGuarded /\ AcceptsVerbatim

(* A request that is over was answered, and no request is answered twice.  *)
AnsweredOnce == \A r \in Request : at[r] = "over" => replies[r] = 1

(* Every temporary file belongs to a request under way, but for those that *)
(* a dying server or a removal that failed has left.                       *)
TmpOwned ==
  \A f \in TmpFile : tmp[f] # Nothing =>
    f \in left \/ \E r \in Request : file[r] = f /\ at[r] # "over"

(* A request that is over leaves one answer and no file behind, whichever  *)
(* of its steps failed (the finally blocks and the handler of last resort).*)
EndsClean == ServerTypeOK /\ AnsweredOnce /\ TmpOwned

(* Every request is answered as long as the server runs.                   *)
AllAnswered == \A r \in Request : at[r] = "route" ~> (replies[r] = 1 \/ server # "up")
=============================================================================
