---------------------------- MODULE SidecarClient ----------------------------
(***************************************************************************)
(* The stdio transport to the Python retrieval sidecar: one client object, *)
(* its callers, and the child processes it spawns one after the other.     *)
(* JavaScript runs one callback at a time, so each callback is one action; *)
(* what can happen in any order is which callback comes next.              *)
(*                                                                         *)
(* A child is external.  It answers the requests it has read in any order, *)
(* writes a response line in two pieces, may write a line that is no       *)
(* response, hang, or die between any two of these.  Node learns of a      *)
(* death in steps: the process is gone (dead), the exit code is known      *)
(* (exited), and the pipes have been read to their end (closed).           *)
(***************************************************************************)
EXTENDS Naturals, Sequences, FiniteSets

CONSTANTS
  Calls,            \* calls of request(), bounds the requests of a behaviour
  NoCall,
  NotJson,          \* a line that is no response envelope
  MaxChildren       \* bound: children spawned

ASSUME NoCallAssumption == NoCall \notin Calls
ASSUME FinitenessAssumption == IsFiniteSet(Calls) /\ MaxChildren \in Nat

Children == 1..MaxChildren
NoChild == 0
Ids == 1..Cardinality(Calls)

(* A request or its response on the wire: its req_id, and the call it was  *)
(* written for (which the wire does not carry).                            *)
Message == [id : Ids, call : Calls]
ASSUME NotJsonAssumption == NotJson \notin Message

(* A piece of an output line; the last piece ends the line.                *)
Piece == [of : Message \cup {NotJson}, ends : BOOLEAN]

VARIABLES
  mode,     \* of the client: open, closing (close() waits), closed
  current,  \* #child
  ending,   \* the child close() waits for
  status,   \* of each child
  inbox,    \* requests in a child's stdin pipe
  writing,  \* the response a child has written half of
  stdout,   \* pieces in a child's stdout pipe
  buffer,   \* #stdoutBuffer, shared by all children
  pending,  \* #pending: req_id to call
  seq,      \* #nextSeq
  timers,   \* calls whose timer is armed
  outcome,  \* how each call's promise was settled
  (* history *)
  sent,     \* the child a call was written to
  noisy,    \* children that wrote a line that is no response
  got       \* the call whose response settled a call

clientVars == <<mode, current, ending>>
childVars == <<status, inbox, writing, stdout, noisy>>
callVars == <<pending, timers, outcome>>
vars == <<mode, current, ending, status, inbox, writing, stdout, buffer,
          pending, seq, timers, outcome, sent, noisy, got>>

Statuses == {"none", "failing", "running", "dead", "exited", "closed"}
Outcomes == {"unsent", "pending", "answered", "timeout", "bad_line",
             "child_exited", "spawn_failed"}

Init ==
  /\ mode = "open"
  /\ current = NoChild
  /\ ending = NoChild
  /\ status = [n \in Children |-> "none"]
  /\ inbox = [n \in Children |-> {}]
  /\ writing = [n \in Children |-> {}]
  /\ stdout = [n \in Children |-> <<>>]
  /\ buffer = <<>>
  /\ pending = [i \in Ids |-> NoCall]
  /\ seq = 0
  /\ timers = {}
  /\ outcome = [c \in Calls |-> "unsent"]
  /\ sent = [c \in Calls |-> NoChild]
  /\ noisy = {}
  /\ got = [c \in Calls |-> NoCall]

-----------------------------------------------------------------------------
(* #settle and #failAllPending: the entries leave the map, their timers    *)
(* are cleared, their promises are settled.                                *)
Settle_LeavesEntry(ids, result) ==
  /\ outcome' = [c \in Calls |-> IF \E i \in ids : pending[i] = c THEN result ELSE outcome[c]]
  /\ timers' = timers \ {pending[i] : i \in ids}
  /\ UNCHANGED pending
Settle(ids, result) ==
  /\ outcome' = [c \in Calls |-> IF \E i \in ids : pending[i] = c THEN result ELSE outcome[c]]
  /\ timers' = timers \ {pending[i] : i \in ids}
  /\ pending' = [i \in Ids |-> IF i \in ids THEN NoCall ELSE pending[i]]

FailAllPending(result) == Settle(Ids, result)

-----------------------------------------------------------------------------
(* request()                                                               *)

(* Not hasExited: the exit of the child has not been noticed.              *)
Alive(n) == n # NoChild /\ status[n] \in {"failing", "running", "dead"}

Unspawned(n) == status[n] = "none" /\ \A k \in 1..(n - 1) : status[k] # "none"

(* The child to write to: the live one, or a new one and an empty buffer.  *)
(* A command that cannot be run is reported by an error event later.       *)
EnsureSpawned(n) ==
  \/ /\ Alive(current)
     /\ n = current
     /\ UNCHANGED <<current, status, buffer>>
  \/ /\ ~Alive(current)
     /\ Unspawned(n)
     /\ \E s \in {"running", "failing"} : status' = [status EXCEPT ![n] = s]
     /\ current' = n
     /\ buffer' = <<>>

Request_SeqPerChild(c) ==
  /\ mode = "open"
  /\ outcome[c] = "unsent"
  /\ \E n \in Children :
       /\ EnsureSpawned(n)
       /\ seq' = IF current' = current THEN seq + 1 ELSE 1
       /\ inbox' = [inbox EXCEPT ![n] = @ \cup {[id |-> seq', call |-> c]}]
       /\ sent' = [sent EXCEPT ![c] = n]
  /\ pending' = [pending EXCEPT ![seq'] = c]
  /\ timers' = timers \cup {c}
  /\ outcome' = [outcome EXCEPT ![c] = "pending"]
  /\ UNCHANGED <<mode, ending, writing, stdout, noisy, got>>
Request_SharedTimer(c) ==
  /\ mode = "open"
  /\ outcome[c] = "unsent"
  /\ \E n \in Children :
       /\ EnsureSpawned(n)
       /\ inbox' = [inbox EXCEPT ![n] = @ \cup {[id |-> seq + 1, call |-> c]}]
       /\ sent' = [sent EXCEPT ![c] = n]
  /\ seq' = seq + 1
  /\ pending' = [pending EXCEPT ![seq'] = c]
  /\ timers' = {c}
  /\ outcome' = [outcome EXCEPT ![c] = "pending"]
  /\ UNCHANGED <<mode, ending, writing, stdout, noisy, got>>
Request(c) ==
  /\ mode = "open"
  /\ outcome[c] = "unsent"
  /\ \E n \in Children :
       /\ EnsureSpawned(n)
       /\ inbox' = [inbox EXCEPT ![n] = @ \cup {[id |-> seq + 1, call |-> c]}]
       /\ sent' = [sent EXCEPT ![c] = n]
  /\ seq' = seq + 1
  /\ pending' = [pending EXCEPT ![seq'] = c]
  /\ timers' = timers \cup {c}
  /\ outcome' = [outcome EXCEPT ![c] = "pending"]
  /\ UNCHANGED <<mode, ending, writing, stdout, noisy, got>>

(* The client is closed, or spawn itself throws after the buffer has been  *)
(* emptied: rejected without an id.                                        *)
RequestRejected(c) ==
  /\ outcome[c] = "unsent"
  /\ \/ mode # "open" /\ UNCHANGED buffer
     \/ mode = "open" /\ ~Alive(current) /\ buffer' = <<>>
  /\ outcome' = [outcome EXCEPT ![c] = "spawn_failed"]
  /\ UNCHANGED <<clientVars, childVars, pending, timers, seq, sent, got>>

(* The write callback of a request the child never read (EPIPE).           *)
WriteFails(i) ==
  /\ pending[i] # NoCall
  /\ LET n == sent[pending[i]]
     IN /\ status[n] # "running"
        /\ [id |-> i, call |-> pending[i]] \in inbox[n]
  /\ Settle({i}, "spawn_failed")
  /\ UNCHANGED <<clientVars, childVars, buffer, seq, sent, got>>

Timeout_DropsChild(i) ==
  /\ pending[i] \in timers
  /\ Settle({i}, "timeout")
  /\ current' = NoChild
  /\ UNCHANGED <<mode, ending, childVars, buffer, seq, sent, got>>
Timeout(i) ==
  /\ pending[i] \in timers
  /\ Settle({i}, "timeout")
  /\ UNCHANGED <<clientVars, childVars, buffer, seq, sent, got>>

-----------------------------------------------------------------------------
(* #onStdout and #onLine, registered on every child.                       *)

Completed(n) == Append(buffer, Head(stdout[n]))
IsResponse(line) ==
  \E m \in Message : line = <<[of |-> m, ends |-> FALSE], [of |-> m, ends |-> TRUE]>>

OnPartialLine(n) ==
  /\ stdout[n] # <<>>
  /\ ~Head(stdout[n]).ends
  /\ buffer' = Completed(n)
  /\ stdout' = [stdout EXCEPT ![n] = Tail(@)]
  /\ UNCHANGED <<clientVars, status, inbox, writing, noisy, callVars, seq, sent, got>>

(* A response settles its request; whether it says ok or error is data.    *)
(* One whose request is no longer pending is dropped.                      *)
OnResponse(n) ==
  /\ stdout[n] # <<>>
  /\ Head(stdout[n]).ends
  /\ IsResponse(Completed(n))
  /\ LET m == Head(stdout[n]).of
     IN /\ Settle({m.id}, "answered")
        /\ got' = [c \in Calls |-> IF pending[m.id] = c THEN m.call ELSE got[c]]
  /\ buffer' = <<>>
  /\ stdout' = [stdout EXCEPT ![n] = Tail(@)]
  /\ UNCHANGED <<clientVars, status, inbox, writing, noisy, seq, sent>>

OnBadLine(n) ==
  /\ stdout[n] # <<>>
  /\ Head(stdout[n]).ends
  /\ ~IsResponse(Completed(n))
  /\ FailAllPending("bad_line")
  /\ buffer' = <<>>
  /\ stdout' = [stdout EXCEPT ![n] = Tail(@)]
  /\ UNCHANGED <<clientVars, status, inbox, writing, noisy, seq, sent, got>>

OnStdout(n) == OnPartialLine(n) \/ OnResponse(n) \/ OnBadLine(n)

-----------------------------------------------------------------------------
(* The events of a child's end, registered on every child.                 *)

OnSpawnError(n) ==
  /\ status[n] = "failing"
  /\ status' = [status EXCEPT ![n] = "exited"]
  /\ FailAllPending("spawn_failed")
  /\ UNCHANGED <<clientVars, inbox, writing, stdout, noisy, buffer, seq, sent, got>>

(* exitCode or signalCode is set; nobody listens to this event.            *)
OnExit(n) ==
  /\ status[n] = "dead"
  /\ status' = [status EXCEPT ![n] = "exited"]
  /\ UNCHANGED <<clientVars, inbox, writing, stdout, noisy, buffer, callVars, seq, sent, got>>

OnClose(n) ==
  /\ status[n] = "exited"
  /\ stdout[n] = <<>>
  /\ status' = [status EXCEPT ![n] = "closed"]
  /\ FailAllPending("child_exited")
  /\ mode' = IF mode = "closing" /\ n = ending THEN "closed" ELSE mode
  /\ UNCHANGED <<current, ending, inbox, writing, stdout, noisy, buffer, seq, sent, got>>

-----------------------------------------------------------------------------
(* close(): no more requests; stdin ends, and the child is killed when it  *)
(* has not gone after the grace period.                                    *)
CloseClient ==
  /\ mode = "open"
  /\ mode' = IF Alive(current) THEN "closing" ELSE "closed"
  /\ ending' = current
  /\ current' = NoChild
  /\ UNCHANGED <<childVars, buffer, callVars, seq, sent, got>>

KillAfterGrace ==
  /\ mode = "closing"
  /\ status[ending] = "running"
  /\ status' = [status EXCEPT ![ending] = "dead"]
  /\ UNCHANGED <<clientVars, inbox, writing, stdout, noisy, buffer, callVars, seq, sent, got>>

-----------------------------------------------------------------------------
(* The child, external.                                                    *)

ChildBeginsAnswer(n, m) ==
  /\ status[n] = "running"
  /\ writing[n] = {}
  /\ m \in inbox[n]
  /\ inbox' = [inbox EXCEPT ![n] = @ \ {m}]
  /\ writing' = [writing EXCEPT ![n] = {m}]
  /\ stdout' = [stdout EXCEPT ![n] = Append(@, [of |-> m, ends |-> FALSE])]
  /\ UNCHANGED <<clientVars, status, noisy, buffer, callVars, seq, sent, got>>

ChildEndsAnswer(n, m) ==
  /\ status[n] = "running"
  /\ m \in writing[n]
  /\ writing' = [writing EXCEPT ![n] = {}]
  /\ stdout' = [stdout EXCEPT ![n] = Append(@, [of |-> m, ends |-> TRUE])]
  /\ UNCHANGED <<clientVars, status, inbox, noisy, buffer, callVars, seq, sent, got>>

ChildWritesNoise(n) ==
  /\ status[n] = "running"
  /\ writing[n] = {}
  /\ n \notin noisy
  /\ noisy' = noisy \cup {n}
  /\ stdout' = [stdout EXCEPT ![n] = Append(@, [of |-> NotJson, ends |-> TRUE])]
  /\ UNCHANGED <<clientVars, status, inbox, writing, buffer, callVars, seq, sent, got>>

ChildDies(n) ==
  /\ status[n] = "running"
  /\ status' = [status EXCEPT ![n] = "dead"]
  /\ UNCHANGED <<clientVars, inbox, writing, stdout, noisy, buffer, callVars, seq, sent, got>>

ChildStep(n) ==
  \/ \E m \in Message : ChildBeginsAnswer(n, m) \/ ChildEndsAnswer(n, m)
  \/ ChildWritesNoise(n)
  \/ ChildDies(n)

-----------------------------------------------------------------------------
Next ==
  \/ \E c \in Calls : Request(c) \/ RequestRejected(c)
  \/ \E i \in Ids : WriteFails(i) \/ Timeout(i)
  \/ \E n \in Children : OnStdout(n) \/ OnSpawnError(n) \/ OnExit(n) \/ OnClose(n) \/ ChildStep(n)
  \/ CloseClient \/ KillAfterGrace

Spec == Init /\ [][Next]_vars

(* The event loop runs: timers fire, pipes are read, a death is noticed.   *)
(* Nothing is assumed of the child; it may hang for ever.                  *)
FairSpec ==
  /\ Spec
  /\ \A i \in Ids : WF_vars(Timeout(i))
  /\ \A n \in Children : /\ WF_vars(OnStdout(n))
                         /\ WF_vars(OnSpawnError(n) \/ OnExit(n) \/ OnClose(n))
  /\ WF_vars(KillAfterGrace)

-----------------------------------------------------------------------------
(* Properties.                                                             *)

(* Every variable has its type.                                            *)
TypeOK ==
  /\ mode \in {"open", "closing", "closed"}
  /\ current \in Children \cup {NoChild}
  /\ ending \in Children \cup {NoChild}
  /\ status \in [Children -> Statuses]
  /\ inbox \in [Children -> SUBSET Message]
  /\ writing \in [Children -> SUBSET Message]
  /\ stdout \in [Children -> Seq(Piece)]
  /\ buffer \in Seq(Piece)
  /\ pending \in [Ids -> Calls \cup {NoCall}]
  /\ seq \in 0..Cardinality(Calls)
  /\ timers \subseteq Calls
  /\ outcome \in [Calls -> Outcomes]
  /\ sent \in [Calls -> Children \cup {NoChild}]
  /\ noisy \subseteq Children
  /\ got \in [Calls -> Calls \cup {NoCall}]

(* A call resolves only with the response to its own request, however late *)
(* responses of timed-out requests and of replaced children arrive: a      *)
(* req_id is never used again.                                             *)
OwnAnswer == \A c \in Calls : outcome[c] = "answered" => got[c] = c

(* The map, the timers and the promises agree: a promise is unsettled      *)
(* exactly while one entry and one armed timer stand for it.  Without an   *)
(* entry its answer would be dropped, without a timer it could wait for    *)
(* ever, and a timer left over would keep the process alive.               *)
PendingAgree ==
  /\ \A c \in Calls : outcome[c] = "pending" <=> c \in timers
  /\ \A c \in Calls : outcome[c] = "pending" <=> \E i \in Ids : pending[i] = c
  /\ \A i, j \in Ids : pending[i] = pending[j] /\ pending[i] # NoCall => i = j

(* A pending request was written to a child whose end is still to come, so *)
(* its close event will fail the request if nothing else settles it.       *)
PendingHasChild ==
  \A i \in Ids : pending[i] # NoCall =>
    /\ sent[pending[i]] \in Children
    /\ status[sent[pending[i]]] \notin {"none", "closed"}

(* What #pending says is so at every moment: a promise waits exactly while *)
(* the client has an entry and a timer for it, and a child to hear from.   *)
Bookkeeping == TypeOK /\ PendingAgree /\ PendingHasChild

(* The client has at most one live sidecar, and none once close() has      *)
(* resolved: respawns, timeouts and deaths leave no orphan behind.         *)
NoOrphan ==
  /\ \A n, k \in Children : Alive(n) /\ Alive(k) => n = k
  /\ mode = "closed" => \A n \in Children : ~Alive(n)

(* Every call is settled, even when the child hangs: its timer is its own. *)
CallsSettle == \A c \in Calls : outcome[c] = "pending" ~> outcome[c] # "pending"

(* close() resolves, even when the child hangs.                            *)
CloseEnds == mode = "closing" ~> mode = "closed"

(* Nobody who awaits the client waits for ever.                            *)
AwaitsEnd == CallsSettle /\ CloseEnds
=============================================================================
