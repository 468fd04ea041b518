----------------------------- MODULE SidecarProofs -----------------------------
(***************************************************************************)
(* Theorems about both ends of the sidecar's pipe: the client that sends   *)
(* requests down it (SidecarClient), for any number of calls and children, *)
(* and the index that answers them (Retrieval), for any vault, bodies,     *)
(* questions and limits.                                                   *)
(*                                                                         *)
(* The client.  A req_id is used once, so whatever response is under way   *)
(* carries the id of a request that is pending for that very call or for   *)
(* nobody (WireOwn); a promise waits exactly while it has an entry and a   *)
(* timer; and the only sidecar that may live is the one the client knows,  *)
(* as its current one or as the one close() waits for (OneAlive).          *)
(*                                                                         *)
(* The index.  An answer is what the query made of an index that is the    *)
(* vault's own (RetrievalOK), so what remains is about the operators: a    *)
(* filter lets through the chunks of the notes it means (FiltersMean),     *)
(* what is ranked is a ranking of its set (IsRanking), the hybrid order    *)
(* grows with both rankings (BetterInBoth), and the pool is as large as    *)
(* the page (PoolSuffices).  The chunker keeps to its section (Cutting),   *)
(* and what it gathers fits and could not have gone with the chunk before  *)
(* (Gathering).                                                            *)
(***************************************************************************)
EXTENDS SidecarClient, Retrieval, FiniteSetTheorems, WellFoundedInduction, TLAPS

(***************************************************************************)
(* The client.                                                             *)
(***************************************************************************)

(* Requests and responses between the client and its children.             *)
OnWire(m) ==
  \E n \in Children :
    m \in inbox[n] \/ m \in writing[n] \/ \E k \in DOMAIN stdout[n] : stdout[n][k].of = m

WireOwn ==
  \A m \in Message : OnWire(m) => m.id <= seq /\ pending[m.id] \in {m.call, NoCall}

Asked == {c \in Calls : outcome[c] # "unsent"}
SeqCounts == seq <= Cardinality(Asked)
LaterIdsFree == \A i \in Ids : i > seq => pending[i] = NoCall

OneAlive ==
  /\ mode = "open" => \A n \in Children : Alive(n) => n = current
  /\ mode = "closing" => ending \in Children /\ \A n \in Children : Alive(n) => n = ending
  /\ mode = "closed" => \A n \in Children : ~Alive(n)

IInv ==
  /\ TypeOK /\ PendingAgree /\ PendingHasChild
  /\ SeqCounts /\ LaterIdsFree
  /\ WireOwn /\ OwnAnswer
  /\ OneAlive

-----------------------------------------------------------------------------
(* Settling.                                                               *)

Verdicts == Outcomes \ {"unsent", "pending"}

(* Whatever is settled leaves the map, the timers and the open promises    *)
(* alike, and nothing else changes.                                        *)
LEMMA SettleEffect ==
  ASSUME TypeOK, PendingAgree, NEW ids \in SUBSET Ids, NEW result \in Verdicts,
         Settle(ids, result)
  PROVE  /\ outcome' \in [Calls -> Outcomes]
         /\ timers' \subseteq Calls
         /\ pending' \in [Ids -> Calls \cup {NoCall}]
         /\ \A i \in Ids : pending'[i] \in {pending[i], NoCall}
         /\ \A i \in ids : pending'[i] = NoCall
         /\ \A c \in Calls : outcome'[c] \in {outcome[c], result}
         /\ \A c \in Calls : outcome'[c] # outcome[c] => \E i \in ids : pending[i] = c
         /\ Asked' = Asked
         /\ PendingAgree'
<1>1. /\ outcome \in [Calls -> Outcomes]
      /\ timers \subseteq Calls
      /\ pending \in [Ids -> Calls \cup {NoCall}]
  BY DEF TypeOK
<1>2. /\ outcome' = [c \in Calls |-> IF \E i \in ids : pending[i] = c THEN result ELSE outcome[c]]
      /\ timers' = timers \ {pending[i] : i \in ids}
      /\ pending' = [i \in Ids |-> IF i \in ids THEN NoCall ELSE pending[i]]
  BY DEF Settle
<1>3. result \in Outcomes /\ result # "unsent" /\ result # "pending"
  BY DEF Verdicts
<1>4. outcome' \in [Calls -> Outcomes] /\ timers' \subseteq Calls
      /\ pending' \in [Ids -> Calls \cup {NoCall}]
  BY <1>1, <1>2, <1>3
<1>5. /\ \A i \in Ids : pending'[i] \in {pending[i], NoCall}
      /\ \A i \in ids : pending'[i] = NoCall
      /\ \A c \in Calls : outcome'[c] \in {outcome[c], result}
      /\ \A c \in Calls : outcome'[c] # outcome[c] => \E i \in ids : pending[i] = c
  BY <1>1, <1>2
<1>6. Asked' = Asked
  <2>1. ASSUME NEW c \in Calls PROVE outcome'[c] = "unsent" <=> outcome[c] = "unsent"
    <3>1. CASE \E i \in ids : pending[i] = c
      <4>1. outcome[c] = "pending"
        BY <3>1 DEF PendingAgree
      <4> QED BY <3>1, <4>1, <1>2, <1>3
    <3>2. CASE ~\E i \in ids : pending[i] = c
      BY <3>2, <1>2
    <3> QED BY <3>1, <3>2
  <2> QED BY <2>1 DEF Asked
<1>7. PendingAgree'
  <2>1. ASSUME NEW c \in Calls
        PROVE  /\ outcome'[c] = "pending" <=> c \in timers'
               /\ outcome'[c] = "pending" <=> \E i \in Ids : pending'[i] = c
    <3>1. CASE \E i \in ids : pending[i] = c
      <4>1. outcome'[c] # "pending" /\ c \notin timers'
        BY <3>1, <1>2, <1>3
      <4>2. ASSUME NEW i \in Ids, pending'[i] = c PROVE FALSE
        <5>1. i \notin ids /\ pending[i] = c
          BY <4>2, <1>2, NoCallAssumption
        <5>2. PICK j \in ids : pending[j] = c
          BY <3>1
        <5>3. i = j
          BY <5>1, <5>2, NoCallAssumption DEF PendingAgree
        <5> QED BY <5>1, <5>3
      <4> QED BY <4>1, <4>2
    <3>2. CASE ~\E i \in ids : pending[i] = c
      <4>1. outcome'[c] = outcome[c] /\ (c \in timers' <=> c \in timers)
        BY <3>2, <1>1, <1>2
      <4>2. \A i \in Ids : pending'[i] = c <=> pending[i] = c
        BY <3>2, <1>1, <1>2, NoCallAssumption
      <4> QED BY <4>1, <4>2 DEF PendingAgree
    <3> QED BY <3>1, <3>2
  <2>2. \A i, j \in Ids : pending'[i] = pending'[j] /\ pending'[i] # NoCall => i = j
    BY <1>1, <1>2 DEF PendingAgree
  <2> QED BY <2>1, <2>2 DEF PendingAgree
<1> QED BY <1>4, <1>5, <1>6, <1>7

(* The same for the rest of the invariant, as long as nothing new comes    *)
(* onto the wire and the children of what is still pending live on.        *)
LEMMA SettleKeeps ==
  ASSUME IInv, NEW ids \in SUBSET Ids, NEW result \in Verdicts, Settle(ids, result),
         UNCHANGED <<seq, sent>>,
         \A m \in Message : OnWire(m)' => OnWire(m),
         \A i \in Ids : pending'[i] # NoCall => status'[sent[pending[i]]] \notin {"none", "closed"}
  PROVE  PendingAgree' /\ PendingHasChild' /\ SeqCounts' /\ LaterIdsFree' /\ WireOwn'
<1>1. TypeOK /\ PendingAgree
  BY DEF IInv
<1>2. /\ \A i \in Ids : pending'[i] \in {pending[i], NoCall}
      /\ Asked' = Asked
      /\ PendingAgree'
  BY <1>1, SettleEffect
<1>3. PendingHasChild'
  BY <1>2 DEF IInv, PendingHasChild
<1>4. SeqCounts' /\ LaterIdsFree'
  BY <1>2 DEF IInv, SeqCounts, LaterIdsFree
<1>5. WireOwn'
  BY <1>2 DEF IInv, WireOwn, Message
<1> QED
  BY <1>2, <1>3, <1>4, <1>5

(* A verdict other than an answer leaves the answers as they are.          *)
LEMMA AnswersStay ==
  ASSUME IInv, NEW ids \in SUBSET Ids, NEW result \in Verdicts, result # "answered",
         Settle(ids, result), UNCHANGED got
  PROVE  OwnAnswer'
<1>1. \A c \in Calls : outcome'[c] \in {outcome[c], result}
  BY SettleEffect DEF IInv
<1> QED
  BY <1>1 DEF IInv, OwnAnswer

-----------------------------------------------------------------------------
(* Bounds and types.                                                       *)

LEMMA AskedIsFinite == IsFiniteSet(Asked) /\ Cardinality(Asked) \in Nat
<1>1. IsFiniteSet(Asked)
  BY FinitenessAssumption, FS_Subset DEF Asked
<1> QED
  BY <1>1, FS_CardinalityType

LEMMA IdsBound == Cardinality(Calls) \in Nat
BY FinitenessAssumption, FS_CardinalityType

(* There is an id for every call that has not been made yet.               *)
LEMMA IdLeft ==
  ASSUME TypeOK, SeqCounts, NEW c \in Calls, outcome[c] = "unsent"
  PROVE  seq + 1 \in Ids
<1>1. Asked \subseteq Calls \ {c}
  BY DEF Asked
<1>2. IsFiniteSet(Calls \ {c}) /\ Cardinality(Calls \ {c}) = Cardinality(Calls) - 1
  BY FinitenessAssumption, FS_RemoveElement
<1>3. Cardinality(Asked) <= Cardinality(Calls \ {c})
  BY <1>1, <1>2, FS_Subset
<1>4. seq \in Nat
  BY IdsBound DEF TypeOK
<1> QED
  BY <1>2, <1>3, <1>4, IdsBound, AskedIsFinite DEF SeqCounts, Ids

LEMMA PieceIn ==
  /\ \A m \in Message : [of |-> m, ends |-> FALSE] \in Piece /\ [of |-> m, ends |-> TRUE] \in Piece
  /\ [of |-> NotJson, ends |-> TRUE] \in Piece
BY DEF Piece

LEMMA PieceSeqs ==
  /\ <<>> \in Seq(Piece)
  /\ \A s \in Seq(Piece) : \A e \in Piece : Append(s, e) \in Seq(Piece)
  /\ \A s \in Seq(Piece) : s # <<>> => Head(s) \in Piece /\ Tail(s) \in Seq(Piece)
<1>1. <<>> \in Seq(Piece)
  OBVIOUS
<1>2. \A s \in Seq(Piece) : \A e \in Piece : Append(s, e) \in Seq(Piece)
  OBVIOUS
<1>3. \A s \in Seq(Piece) : s # <<>> => Head(s) \in Piece /\ Tail(s) \in Seq(Piece)
  OBVIOUS
<1> QED
  BY <1>1, <1>2, <1>3


-----------------------------------------------------------------------------
(* request()                                                               *)

(* The child to write to is alive, and it is the only one.                 *)
LEMMA SpawnEffect ==
  ASSUME IInv, mode = "open", NEW n \in Children, EnsureSpawned(n)
  PROVE  /\ current' = n
         /\ status' \in [Children -> Statuses]
         /\ buffer' \in Seq(Piece)
         /\ status'[n] \in {"failing", "running", "dead"}
         /\ \A k \in Children : k # n =>
              status'[k] = status[k] /\ status'[k] \notin {"failing", "running", "dead"}
         /\ status'[n] # status[n] => status[n] = "none"
<1>1. /\ status \in [Children -> Statuses] /\ buffer \in Seq(Piece)
      /\ \A k \in Children : Alive(k) => k = current
      /\ \A k \in Children : k # NoChild
  BY DEF IInv, TypeOK, OneAlive, Children, NoChild
<1>2. CASE Alive(current) /\ n = current /\ UNCHANGED <<current, status, buffer>>
  BY <1>1, <1>2 DEF Alive
<1>3. CASE /\ ~Alive(current) /\ Unspawned(n)
           /\ \E s \in {"running", "failing"} : status' = [status EXCEPT ![n] = s]
           /\ current' = n /\ buffer' = <<>>
  <2>1. \A k \in Children : ~Alive(k)
    BY <1>1, <1>3
  <2>2. PICK s \in {"running", "failing"} : status' = [status EXCEPT ![n] = s]
    BY <1>3
  <2>3. status' \in [Children -> Statuses]
    BY <1>1, <2>2 DEF Statuses
  <2>4. status[n] = "none"
    BY <1>3 DEF Unspawned
  <2> QED BY <1>1, <1>3, <2>1, <2>2, <2>3, <2>4, PieceSeqs DEF Alive
<1> QED
  BY <1>2, <1>3 DEF EnsureSpawned

LEMMA RequestKeeps ==
  ASSUME IInv, NEW c \in Calls, Request(c)
  PROVE  IInv'
<1>1. PICK n \in Children : /\ EnsureSpawned(n)
                            /\ inbox' = [inbox EXCEPT ![n] = @ \cup {[id |-> seq + 1, call |-> c]}]
                            /\ sent' = [sent EXCEPT ![c] = n]
  BY DEF Request
<1>2. /\ mode = "open" /\ outcome[c] = "unsent" /\ seq' = seq + 1
      /\ pending' = [pending EXCEPT ![seq + 1] = c]
      /\ timers' = timers \cup {c}
      /\ outcome' = [outcome EXCEPT ![c] = "pending"]
      /\ UNCHANGED <<mode, ending, writing, stdout, noisy, got>>
  BY DEF Request
<1>3. /\ current' = n
      /\ status' \in [Children -> Statuses]
      /\ buffer' \in Seq(Piece)
      /\ status'[n] \in {"failing", "running", "dead"}
      /\ \A k \in Children : k # n =>
           status'[k] = status[k] /\ status'[k] \notin {"failing", "running", "dead"}
      /\ status'[n] # status[n] => status[n] = "none"
  BY <1>1, <1>2, SpawnEffect
<1>4. TypeOK
  BY DEF IInv
<1>5. seq + 1 \in Ids /\ seq \in Nat
  BY <1>2, <1>4, IdLeft, IdsBound DEF IInv, TypeOK
<1>6. pending[seq + 1] = NoCall
  BY <1>5 DEF IInv, LaterIdsFree
<1>7. [id |-> seq + 1, call |-> c] \in Message
  BY <1>5 DEF Message
<1>8. TypeOK'
  <2>1. inbox' \in [Children -> SUBSET Message]
    BY <1>1, <1>4, <1>7 DEF TypeOK
  <2>2. pending' \in [Ids -> Calls \cup {NoCall}] /\ timers' \subseteq Calls
    BY <1>2, <1>4, <1>5 DEF TypeOK
  <2>3. seq' \in 0..Cardinality(Calls)
    BY <1>2, <1>5, IdsBound DEF Ids
  <2>4. outcome' \in [Calls -> Outcomes] /\ sent' \in [Calls -> Children \cup {NoChild}]
    BY <1>1, <1>2, <1>4 DEF TypeOK, Outcomes
  <2> QED BY <1>2, <1>3, <1>4, <2>1, <2>2, <2>3, <2>4 DEF TypeOK
<1>9. PendingAgree'
  <2>1. \A i \in Ids : pending[i] # c
    BY <1>2 DEF IInv, PendingAgree
  <2>2. ASSUME NEW d \in Calls
        PROVE  /\ outcome'[d] = "pending" <=> d \in timers'
               /\ outcome'[d] = "pending" <=> \E i \in Ids : pending'[i] = d
    <3>1. CASE d = c
      <4>1. pending'[seq + 1] = c
        BY <1>2, <1>4, <1>5 DEF TypeOK
      <4> QED BY <3>1, <4>1, <1>2, <1>4, <1>5 DEF TypeOK
    <3>2. CASE d # c
      <4>1. outcome'[d] = outcome[d] /\ (d \in timers' <=> d \in timers)
        BY <3>2, <1>2, <1>4 DEF TypeOK
      <4>2. \A i \in Ids : pending'[i] = d <=> pending[i] = d
        BY <3>2, <1>2, <1>4, <1>6, NoCallAssumption DEF TypeOK
      <4> QED BY <4>1, <4>2 DEF IInv, PendingAgree
    <3> QED BY <3>1, <3>2
  <2>3. \A i, j \in Ids : pending'[i] = pending'[j] /\ pending'[i] # NoCall => i = j
    <3>1. \A i \in Ids : pending'[i] = IF i = seq + 1 THEN c ELSE pending[i]
      BY <1>2, <1>4 DEF TypeOK
    <3> QED BY <3>1, <2>1 DEF IInv, PendingAgree
  <2> QED BY <2>2, <2>3 DEF PendingAgree
<1>10. PendingHasChild'
  <2> SUFFICES ASSUME NEW i \in Ids, pending'[i] # NoCall
               PROVE  /\ sent'[pending'[i]] \in Children
                      /\ status'[sent'[pending'[i]]] \notin {"none", "closed"}
    BY DEF PendingHasChild
  <2>1. CASE i = seq + 1
    BY <2>1, <1>1, <1>2, <1>3, <1>4, <1>5 DEF TypeOK
  <2>2. CASE i # seq + 1
    <3>1. pending'[i] = pending[i] /\ pending[i] \in Calls
      BY <2>2, <1>2, <1>4 DEF TypeOK
    <3>2. sent[pending[i]] \in Children /\ status[sent[pending[i]]] \notin {"none", "closed"}
      BY <3>1, NoCallAssumption DEF IInv, PendingHasChild
    <3>3. pending[i] # c
      BY <1>2 DEF IInv, PendingAgree
    <3>4. sent'[pending[i]] = sent[pending[i]]
      BY <1>1, <1>4, <3>1, <3>3 DEF TypeOK
    <3>5. status'[sent[pending[i]]] = status[sent[pending[i]]]
      BY <1>3, <3>2
    <3> QED BY <3>1, <3>2, <3>4, <3>5
  <2> QED BY <2>1, <2>2
<1>11. SeqCounts'
  <2>1. Asked' = Asked \cup {c} /\ c \notin Asked
    BY <1>2, <1>4 DEF Asked, TypeOK
  <2>2. Cardinality(Asked') = Cardinality(Asked) + 1
    BY <2>1, AskedIsFinite, FS_AddElement
  <2> QED BY <1>2, <1>5, <2>2, AskedIsFinite DEF IInv, SeqCounts
<1>12. LaterIdsFree'
  <2> SUFFICES ASSUME NEW i \in Ids, i > seq + 1
               PROVE  pending'[i] = NoCall
    BY <1>2 DEF LaterIdsFree
  <2>1. pending'[i] = pending[i] /\ i > seq
    BY <1>2, <1>4, <1>5 DEF TypeOK, Ids
  <2> QED BY <2>1 DEF IInv, LaterIdsFree
<1>13. WireOwn'
  <2> SUFFICES ASSUME NEW m \in Message, OnWire(m)'
               PROVE  m.id <= seq' /\ pending'[m.id] \in {m.call, NoCall}
    BY DEF WireOwn
  <2>1. CASE m = [id |-> seq + 1, call |-> c]
    BY <2>1, <1>2, <1>4, <1>5 DEF TypeOK
  <2>2. CASE m # [id |-> seq + 1, call |-> c]
    <3>1. OnWire(m)
      BY <2>2, <1>1, <1>2, <1>4 DEF OnWire, TypeOK
    <3>2. m.id <= seq /\ pending[m.id] \in {m.call, NoCall} /\ m.id \in Ids
      BY <3>1 DEF IInv, WireOwn, Message
    <3>3. m.id # seq + 1 /\ m.id <= seq + 1
      BY <3>2, <1>5 DEF Ids
    <3> QED BY <3>2, <3>3, <1>2, <1>4 DEF TypeOK
  <2> QED BY <2>1, <2>2
<1>14. OwnAnswer'
  BY <1>2, <1>4 DEF IInv, OwnAnswer, TypeOK
<1>15. OneAlive'
  BY <1>2, <1>3 DEF OneAlive, Alive
<1> QED
  BY <1>8, <1>9, <1>10, <1>11, <1>12, <1>13, <1>14, <1>15 DEF IInv


LEMMA RejectedKeeps ==
  ASSUME IInv, NEW c \in Calls, RequestRejected(c)
  PROVE  IInv'
<1>1. /\ outcome[c] = "unsent"
      /\ outcome' = [outcome EXCEPT ![c] = "spawn_failed"]
      /\ buffer' \in {buffer, <<>>}
      /\ UNCHANGED <<mode, current, ending, status, inbox, writing, stdout, noisy,
                     pending, timers, seq, sent, got>>
  BY DEF RequestRejected, clientVars, childVars
<1>2. TypeOK /\ PendingAgree /\ PendingHasChild
  BY DEF IInv
<1>3. TypeOK'
  BY <1>1, <1>2, PieceSeqs DEF TypeOK, Outcomes
<1>4. PendingAgree' /\ PendingHasChild'
  BY <1>1, <1>2 DEF TypeOK, PendingAgree, PendingHasChild
<1>5. SeqCounts'
  <2>1. Asked' = Asked \cup {c} /\ c \notin Asked
    BY <1>1, <1>2 DEF Asked, TypeOK
  <2>2. Cardinality(Asked') = Cardinality(Asked) + 1
    BY <2>1, AskedIsFinite, FS_AddElement
  <2>3. seq \in Nat
    BY <1>2, IdsBound DEF TypeOK
  <2> QED BY <1>1, <2>2, <2>3, AskedIsFinite DEF IInv, SeqCounts
<1>6. LaterIdsFree' /\ WireOwn'
  BY <1>1 DEF IInv, LaterIdsFree, WireOwn, OnWire
<1>7. OwnAnswer' /\ OneAlive'
  BY <1>1, <1>2 DEF IInv, OwnAnswer, OneAlive, Alive, TypeOK
<1> QED
  BY <1>3, <1>4, <1>5, <1>6, <1>7 DEF IInv

-----------------------------------------------------------------------------
(* A request fails by itself: its write fails, or its time is up.          *)

LEMMA FailsAloneKeeps ==
  ASSUME IInv, NEW i \in Ids, NEW result \in Verdicts, result # "answered", Settle({i}, result),
         UNCHANGED <<clientVars, childVars, buffer, seq, sent, got>>
  PROVE  IInv'
<1>1. /\ UNCHANGED <<mode, current, ending, status, inbox, writing, stdout, noisy>>
      /\ UNCHANGED <<buffer, seq, sent, got>>
  BY DEF clientVars, childVars
<1>2. TypeOK /\ PendingAgree /\ PendingHasChild
  BY DEF IInv
<1>3. {i} \in SUBSET Ids
  OBVIOUS
<1>4. /\ outcome' \in [Calls -> Outcomes]
      /\ timers' \subseteq Calls
      /\ pending' \in [Ids -> Calls \cup {NoCall}]
      /\ \A j \in Ids : pending'[j] \in {pending[j], NoCall}
  BY <1>2, <1>3, SettleEffect
<1>5. TypeOK'
  BY <1>1, <1>2, <1>4 DEF TypeOK
<1>6. \A m \in Message : OnWire(m)' => OnWire(m)
  BY <1>1 DEF OnWire
<1>7. \A j \in Ids : pending'[j] # NoCall => status'[sent[pending[j]]] \notin {"none", "closed"}
  BY <1>1, <1>2, <1>4 DEF PendingHasChild
<1>8. PendingAgree' /\ PendingHasChild' /\ SeqCounts' /\ LaterIdsFree' /\ WireOwn'
  BY <1>1, <1>3, <1>6, <1>7, SettleKeeps
<1>9. OwnAnswer'
  BY <1>1, <1>3, AnswersStay
<1>10. OneAlive'
  BY <1>1 DEF IInv, OneAlive, Alive
<1> QED
  BY <1>5, <1>8, <1>9, <1>10 DEF IInv

LEMMA WriteFailsKeeps ==
  ASSUME IInv, NEW i \in Ids, WriteFails(i)
  PROVE  IInv'
<1>1. Settle({i}, "spawn_failed") /\ UNCHANGED <<clientVars, childVars, buffer, seq, sent, got>>
  BY DEF WriteFails
<1>2. "spawn_failed" \in Verdicts
  BY DEF Verdicts, Outcomes
<1> QED
  BY <1>1, <1>2, FailsAloneKeeps

LEMMA TimeoutKeeps ==
  ASSUME IInv, NEW i \in Ids, Timeout(i)
  PROVE  IInv'
<1>1. Settle({i}, "timeout") /\ UNCHANGED <<clientVars, childVars, buffer, seq, sent, got>>
  BY DEF Timeout
<1>2. "timeout" \in Verdicts
  BY DEF Verdicts, Outcomes
<1> QED
  BY <1>1, <1>2, FailsAloneKeeps

-----------------------------------------------------------------------------
(* Output.                                                                 *)

(* A piece is taken from the pipe: what is left of the pipe was in it.     *)
LEMMA TakenFromPipe ==
  ASSUME TypeOK, NEW n \in Children, stdout[n] # <<>>,
         stdout' = [stdout EXCEPT ![n] = Tail(@)], UNCHANGED <<inbox, writing>>
  PROVE  /\ stdout' \in [Children -> Seq(Piece)]
         /\ Head(stdout[n]) \in Piece
         /\ Completed(n) \in Seq(Piece)
         /\ \A m \in Message : OnWire(m)' => OnWire(m)
         /\ \A m \in Message : Head(stdout[n]).of = m => OnWire(m)
<1>1. stdout[n] \in Seq(Piece) /\ stdout \in [Children -> Seq(Piece)] /\ buffer \in Seq(Piece)
  BY DEF TypeOK
<1>2. Head(stdout[n]) \in Piece /\ Tail(stdout[n]) \in Seq(Piece)
  BY <1>1, PieceSeqs
<1>3. stdout' \in [Children -> Seq(Piece)]
  BY <1>1, <1>2
<1>4. Completed(n) \in Seq(Piece)
  BY <1>1, <1>2, PieceSeqs DEF Completed
<1>5. \A k \in DOMAIN Tail(stdout[n]) :
         k + 1 \in DOMAIN stdout[n] /\ Tail(stdout[n])[k] = stdout[n][k + 1]
  BY <1>1
<1>6. 1 \in DOMAIN stdout[n] /\ Head(stdout[n]) = stdout[n][1]
  BY <1>1
<1>7. ASSUME NEW m \in Message, OnWire(m)' PROVE OnWire(m)
  <2>1. PICK x \in Children :
          m \in inbox[x] \/ m \in writing[x] \/ \E k \in DOMAIN stdout'[x] : stdout'[x][k].of = m
    BY <1>7 DEF OnWire
  <2>2. CASE \E k \in DOMAIN stdout'[x] : stdout'[x][k].of = m
    <3>1. CASE x = n
      <4>1. stdout'[x] = Tail(stdout[n])
        BY <3>1, <1>1
      <4>2. PICK k \in DOMAIN Tail(stdout[n]) : Tail(stdout[n])[k].of = m
        BY <2>2, <4>1
      <4>3. k + 1 \in DOMAIN stdout[n] /\ stdout[n][k + 1].of = m
        BY <4>2, <1>5
      <4> QED BY <4>3 DEF OnWire
    <3>2. CASE x # n
      BY <3>2, <2>2, <1>1 DEF OnWire
    <3> QED BY <3>1, <3>2
  <2> QED BY <2>1, <2>2 DEF OnWire
<1>8. ASSUME NEW m \in Message, Head(stdout[n]).of = m PROVE OnWire(m)
  BY <1>6, <1>8 DEF OnWire
<1> QED
  BY <1>2, <1>3, <1>4, <1>7, <1>8

LEMMA PartialLineKeeps ==
  ASSUME IInv, NEW n \in Children, OnPartialLine(n)
  PROVE  IInv'
<1>1. /\ stdout[n] # <<>>
      /\ buffer' = Completed(n)
      /\ stdout' = [stdout EXCEPT ![n] = Tail(@)]
      /\ UNCHANGED <<mode, current, ending, status, inbox, writing, noisy,
                     pending, timers, outcome, seq, sent, got>>
  BY DEF OnPartialLine, clientVars, callVars
<1>2. TypeOK
  BY DEF IInv
<1>3. /\ stdout' \in [Children -> Seq(Piece)] /\ buffer' \in Seq(Piece)
      /\ \A m \in Message : OnWire(m)' => OnWire(m)
  BY <1>1, <1>2, TakenFromPipe
<1>4. TypeOK'
  BY <1>1, <1>2, <1>3 DEF TypeOK
<1>5. PendingAgree' /\ PendingHasChild' /\ SeqCounts' /\ LaterIdsFree'
  BY <1>1 DEF IInv, PendingAgree, PendingHasChild, SeqCounts, LaterIdsFree, Asked
<1>6. WireOwn'
  BY <1>1, <1>3 DEF IInv, WireOwn
<1>7. OwnAnswer' /\ OneAlive'
  BY <1>1 DEF IInv, OwnAnswer, OneAlive, Alive
<1> QED
  BY <1>4, <1>5, <1>6, <1>7 DEF IInv


(* A whole line settles some requests: all of the invariant but what the   *)
(* answers are follows from the settling.                                  *)
LEMMA LineSettles ==
  ASSUME IInv, NEW n \in Children, stdout[n] # <<>>,
         stdout' = [stdout EXCEPT ![n] = Tail(@)], buffer' = <<>>,
         NEW ids \in SUBSET Ids, NEW result \in Verdicts, Settle(ids, result),
         got' \in [Calls -> Calls \cup {NoCall}], OwnAnswer',
         UNCHANGED <<clientVars, status, inbox, writing, noisy, seq, sent>>
  PROVE  IInv'
<1>1. /\ UNCHANGED <<mode, current, ending, status, inbox, writing, noisy, seq, sent>>
      /\ TypeOK /\ PendingAgree /\ PendingHasChild
  BY DEF clientVars, IInv
<1>2. /\ stdout' \in [Children -> Seq(Piece)]
      /\ \A m \in Message : OnWire(m)' => OnWire(m)
  BY <1>1, TakenFromPipe
<1>3. /\ outcome' \in [Calls -> Outcomes]
      /\ timers' \subseteq Calls
      /\ pending' \in [Ids -> Calls \cup {NoCall}]
      /\ \A j \in Ids : pending'[j] \in {pending[j], NoCall}
  BY <1>1, SettleEffect
<1>4. TypeOK'
  BY <1>1, <1>2, <1>3, PieceSeqs DEF TypeOK
<1>5. \A j \in Ids : pending'[j] # NoCall => status'[sent[pending[j]]] \notin {"none", "closed"}
  BY <1>1, <1>3 DEF PendingHasChild
<1>6. PendingAgree' /\ PendingHasChild' /\ SeqCounts' /\ LaterIdsFree' /\ WireOwn'
  BY <1>1, <1>2, <1>5, SettleKeeps
<1>7. OneAlive'
  BY <1>1 DEF IInv, OneAlive, Alive
<1> QED
  BY <1>4, <1>6, <1>7 DEF IInv

LEMMA AppendEnd ==
  \A s \in Seq(Piece) : \A h \in Piece :
    Len(Append(s, h)) = Len(s) + 1 /\ Append(s, h)[Len(s) + 1] = h
OBVIOUS

LEMMA LastOfTwo ==
  ASSUME NEW s \in Seq(Piece), NEW h \in Piece, NEW a \in Piece, NEW b \in Piece,
         Append(s, h) = <<a, b>>
  PROVE  h = b
<1>1. Len(<<a, b>>) = 2 /\ <<a, b>>[2] = b
  OBVIOUS
<1>2. Len(Append(s, h)) = Len(s) + 1 /\ Append(s, h)[Len(s) + 1] = h
  BY AppendEnd
<1>3. Len(s) \in Nat
  OBVIOUS
<1> QED
  BY <1>1, <1>2, <1>3

(* The piece that completes a response is a piece of that response.        *)
LEMMA ResponsePiece ==
  ASSUME TypeOK, NEW n \in Children, stdout[n] # <<>>, IsResponse(Completed(n))
  PROVE  Head(stdout[n]).of \in Message
<1>1. buffer \in Seq(Piece) /\ stdout[n] \in Seq(Piece)
  BY DEF TypeOK
<1>2. Head(stdout[n]) \in Piece
  BY <1>1, PieceSeqs
<1>3. PICK m \in Message :
        Append(buffer, Head(stdout[n])) = <<[of |-> m, ends |-> FALSE], [of |-> m, ends |-> TRUE]>>
  BY DEF IsResponse, Completed
<1>4. Head(stdout[n]) = [of |-> m, ends |-> TRUE]
  BY <1>1, <1>2, <1>3, PieceIn, LastOfTwo
<1> QED
  BY <1>4

LEMMA ResponseKeeps ==
  ASSUME IInv, NEW n \in Children, OnResponse(n)
  PROVE  IInv'
<1> DEFINE m == Head(stdout[n]).of
<1>1. /\ stdout[n] # <<>> /\ IsResponse(Completed(n))
      /\ Settle({m.id}, "answered")
      /\ got' = [c \in Calls |-> IF pending[m.id] = c THEN m.call ELSE got[c]]
      /\ buffer' = <<>>
      /\ stdout' = [stdout EXCEPT ![n] = Tail(@)]
      /\ UNCHANGED <<clientVars, status, inbox, writing, noisy, seq, sent>>
  BY DEF OnResponse
<1>2. TypeOK /\ PendingAgree
  BY DEF IInv
<1>3. m \in Message
  BY <1>1, <1>2, ResponsePiece
<1>4. m.id \in Ids /\ m.call \in Calls
  BY <1>3 DEF Message
<1>5. {m.id} \in SUBSET Ids /\ "answered" \in Verdicts
  BY <1>4 DEF Verdicts, Outcomes
<1>6. UNCHANGED <<inbox, writing>>
  BY <1>1
<1>7. OnWire(m)
  BY <1>1, <1>2, <1>3, <1>6, TakenFromPipe
<1>8. pending[m.id] \in {m.call, NoCall}
  BY <1>3, <1>7 DEF IInv, WireOwn
<1>9. got' \in [Calls -> Calls \cup {NoCall}]
  BY <1>1, <1>2, <1>4 DEF TypeOK
<1>10. OwnAnswer'
  <2> SUFFICES ASSUME NEW c \in Calls, outcome'[c] = "answered"
               PROVE  got'[c] = c
    BY DEF OwnAnswer
  <2>1. CASE pending[m.id] = c
    BY <2>1, <1>1, <1>8, NoCallAssumption
  <2>2. CASE pending[m.id] # c
    <3>1. outcome'[c] = outcome[c]
      BY <2>2, <1>1 DEF Settle
    <3> QED BY <2>2, <3>1, <1>1 DEF IInv, OwnAnswer
  <2> QED BY <2>1, <2>2
<1> HIDE DEF m
<1> QED
  BY <1>1, <1>5, <1>9, <1>10, LineSettles

LEMMA BadLineKeeps ==
  ASSUME IInv, NEW n \in Children, OnBadLine(n)
  PROVE  IInv'
<1>1. /\ stdout[n] # <<>>
      /\ Settle(Ids, "bad_line")
      /\ buffer' = <<>>
      /\ stdout' = [stdout EXCEPT ![n] = Tail(@)]
      /\ UNCHANGED <<clientVars, status, inbox, writing, noisy, seq, sent, got>>
  BY DEF OnBadLine, FailAllPending
<1>2. "bad_line" \in Verdicts /\ Ids \in SUBSET Ids
  BY DEF Verdicts, Outcomes
<1>3. OwnAnswer' /\ got' \in [Calls -> Calls \cup {NoCall}]
  BY <1>1, <1>2, AnswersStay DEF IInv, TypeOK
<1> QED
  BY <1>1, <1>2, <1>3, LineSettles

-----------------------------------------------------------------------------
(* The end of a child.                                                     *)

(* A child's end fails everything that is pending.                         *)
LEMMA EndFailsAll ==
  ASSUME IInv, NEW n \in Children, NEW s \in {"exited", "closed"},
         status' = [status EXCEPT ![n] = s],
         NEW result \in Verdicts, result # "answered", Settle(Ids, result),
         UNCHANGED <<current, ending, inbox, writing, stdout, noisy, buffer, seq, sent, got>>,
         mode' \in {"open", "closing", "closed"}
  PROVE  /\ TypeOK' /\ PendingAgree' /\ PendingHasChild' /\ SeqCounts' /\ LaterIdsFree'
         /\ WireOwn' /\ OwnAnswer'
         /\ \A k \in Children : Alive(k)' => Alive(k) /\ k # n
<1>1. TypeOK /\ PendingAgree /\ Ids \in SUBSET Ids
  BY DEF IInv
<1>2. /\ outcome' \in [Calls -> Outcomes]
      /\ timers' \subseteq Calls
      /\ pending' \in [Ids -> Calls \cup {NoCall}]
      /\ \A j \in Ids : pending'[j] = NoCall
  BY <1>1, SettleEffect
<1>3. status' \in [Children -> Statuses]
  BY <1>1 DEF TypeOK, Statuses
<1>4. TypeOK'
  BY <1>1, <1>2, <1>3 DEF TypeOK
<1>5. \A m \in Message : OnWire(m)' => OnWire(m)
  BY DEF OnWire
<1>6. PendingAgree' /\ PendingHasChild' /\ SeqCounts' /\ LaterIdsFree' /\ WireOwn'
  BY <1>1, <1>2, <1>5, SettleKeeps
<1>7. OwnAnswer'
  BY <1>1, AnswersStay
<1>8. \A k \in Children : Alive(k)' => Alive(k) /\ k # n
  BY <1>1 DEF TypeOK, Alive
<1> QED
  BY <1>4, <1>6, <1>7, <1>8

LEMMA SpawnErrorKeeps ==
  ASSUME IInv, NEW n \in Children, OnSpawnError(n)
  PROVE  IInv'
<1>1. /\ status' = [status EXCEPT ![n] = "exited"]
      /\ Settle(Ids, "spawn_failed")
      /\ UNCHANGED <<mode, current, ending, inbox, writing, stdout, noisy, buffer, seq, sent, got>>
  BY DEF OnSpawnError, FailAllPending, clientVars
<1>2. "spawn_failed" \in Verdicts /\ mode' \in {"open", "closing", "closed"}
  BY <1>1 DEF Verdicts, Outcomes, IInv, TypeOK
<1>3. /\ TypeOK' /\ PendingAgree' /\ PendingHasChild' /\ SeqCounts' /\ LaterIdsFree'
      /\ WireOwn' /\ OwnAnswer'
      /\ \A k \in Children : Alive(k)' => Alive(k) /\ k # n
  BY <1>1, <1>2, EndFailsAll
<1>4. OneAlive'
  BY <1>1, <1>3 DEF IInv, OneAlive
<1> QED
  BY <1>3, <1>4 DEF IInv

LEMMA CloseKeeps ==
  ASSUME IInv, NEW n \in Children, OnClose(n)
  PROVE  IInv'
<1>1. /\ status' = [status EXCEPT ![n] = "closed"]
      /\ Settle(Ids, "child_exited")
      /\ mode' = IF mode = "closing" /\ n = ending THEN "closed" ELSE mode
      /\ UNCHANGED <<current, ending, inbox, writing, stdout, noisy, buffer, seq, sent, got>>
  BY DEF OnClose, FailAllPending
<1>2. "child_exited" \in Verdicts /\ mode' \in {"open", "closing", "closed"}
  BY <1>1 DEF Verdicts, Outcomes, IInv, TypeOK
<1>3. /\ TypeOK' /\ PendingAgree' /\ PendingHasChild' /\ SeqCounts' /\ LaterIdsFree'
      /\ WireOwn' /\ OwnAnswer'
      /\ \A k \in Children : Alive(k)' => Alive(k) /\ k # n
  BY <1>1, <1>2, EndFailsAll
<1>4. OneAlive'
  BY <1>1, <1>3 DEF IInv, OneAlive
<1> QED
  BY <1>3, <1>4 DEF IInv

(* Nothing that is pending changes: a child dies or its exit is noticed,   *)
(* or close() begins.                                                      *)
LEMMA NothingSettled ==
  ASSUME IInv, status' \in [Children -> Statuses],
         \A k \in Children : status'[k] # status[k] => status'[k] \in {"dead", "exited"},
         mode' \in {"open", "closing", "closed"}, {current', ending'} \subseteq Children \cup {NoChild},
         UNCHANGED <<inbox, writing, stdout, noisy, buffer, callVars, seq, sent, got>>
  PROVE  /\ TypeOK' /\ PendingAgree' /\ PendingHasChild' /\ SeqCounts' /\ LaterIdsFree'
         /\ WireOwn' /\ OwnAnswer'
<1>1. UNCHANGED <<pending, timers, outcome>>
  BY DEF callVars
<1>2. TypeOK'
  BY <1>1 DEF IInv, TypeOK
<1>3. PendingHasChild'
  BY <1>1 DEF IInv, PendingHasChild
<1>4. PendingAgree' /\ SeqCounts' /\ LaterIdsFree' /\ WireOwn' /\ OwnAnswer'
  BY <1>1 DEF IInv, PendingAgree, SeqCounts, Asked, LaterIdsFree, WireOwn, OnWire, OwnAnswer
<1> QED
  BY <1>2, <1>3, <1>4

(* OnExit, KillAfterGrace and ChildDies: a step on a child's way out.      *)
LEMMA StepOutKeeps ==
  ASSUME IInv, NEW n \in Children, NEW s \in {"dead", "exited"},
         status[n] \in {"running", "dead"}, status' = [status EXCEPT ![n] = s],
         UNCHANGED <<clientVars, inbox, writing, stdout, noisy, buffer, callVars, seq, sent, got>>
  PROVE  IInv'
<1>1. UNCHANGED <<mode, current, ending>>
  BY DEF clientVars
<1>2. status \in [Children -> Statuses]
  BY DEF IInv, TypeOK
<1>3. /\ status' \in [Children -> Statuses]
      /\ \A k \in Children : status'[k] # status[k] => status'[k] \in {"dead", "exited"}
      /\ \A k \in Children : Alive(k)' => Alive(k)
  BY <1>2 DEF Statuses, Alive
<1>4. mode' \in {"open", "closing", "closed"} /\ {current', ending'} \subseteq Children \cup {NoChild}
  BY <1>1 DEF IInv, TypeOK
<1>5. OneAlive'
  BY <1>1, <1>3 DEF IInv, OneAlive
<1>6. /\ TypeOK' /\ PendingAgree' /\ PendingHasChild' /\ SeqCounts' /\ LaterIdsFree'
      /\ WireOwn' /\ OwnAnswer'
  BY <1>3, <1>4, NothingSettled
<1> QED
  BY <1>5, <1>6 DEF IInv

LEMMA CloseClientKeeps ==
  ASSUME IInv, CloseClient
  PROVE  IInv'
<1>1. /\ mode = "open"
      /\ mode' = IF Alive(current) THEN "closing" ELSE "closed"
      /\ ending' = current /\ current' = NoChild
      /\ UNCHANGED <<status, inbox, writing, stdout, noisy, buffer, callVars, seq, sent, got>>
  BY DEF CloseClient, childVars
<1>2. /\ mode' \in {"open", "closing", "closed"}
      /\ {current', ending'} \subseteq Children \cup {NoChild}
      /\ status' \in [Children -> Statuses]
      /\ \A k \in Children : status'[k] # status[k] => status'[k] \in {"dead", "exited"}
  BY <1>1 DEF IInv, TypeOK
<1>3. OneAlive'
  BY <1>1 DEF IInv, TypeOK, OneAlive, Alive
<1>4. /\ TypeOK' /\ PendingAgree' /\ PendingHasChild' /\ SeqCounts' /\ LaterIdsFree'
      /\ WireOwn' /\ OwnAnswer'
  BY <1>1, <1>2, NothingSettled
<1> QED
  BY <1>3, <1>4 DEF IInv


-----------------------------------------------------------------------------
(* The child's own steps.                                                  *)

LEMMA AppendParts ==
  \A s \in Seq(Piece) : \A e \in Piece : \A k \in DOMAIN Append(s, e) :
    (k \in DOMAIN s /\ Append(s, e)[k] = s[k]) \/ Append(s, e)[k] = e
OBVIOUS

(* A child writes a piece of a response that was on the wire already, or   *)
(* of no response: nothing new is on the wire.                             *)
LEMMA WritingKeeps ==
  ASSUME IInv, NEW n \in Children, NEW e \in Piece, e.of \in Message => OnWire(e.of),
         inbox' \in [Children -> SUBSET Message], writing' \in [Children -> SUBSET Message],
         \A k \in Children : inbox'[k] \subseteq inbox[k] /\ writing'[k] \subseteq writing[k] \cup {e.of},
         stdout' = [stdout EXCEPT ![n] = Append(@, e)], noisy' \subseteq Children,
         UNCHANGED <<clientVars, status, buffer, callVars, seq, sent, got>>
  PROVE  IInv'
<1>1. /\ UNCHANGED <<mode, current, ending, status, buffer, pending, timers, outcome, seq, sent, got>>
      /\ TypeOK
  BY DEF clientVars, callVars, IInv
<1>2. stdout \in [Children -> Seq(Piece)] /\ stdout[n] \in Seq(Piece)
  BY <1>1 DEF TypeOK
<1>3. stdout' \in [Children -> Seq(Piece)]
  BY <1>2, PieceSeqs
<1>4. TypeOK'
  BY <1>1, <1>3 DEF TypeOK
<1>5. ASSUME NEW m \in Message, OnWire(m)' PROVE OnWire(m)
  <2>1. PICK x \in Children :
          m \in inbox'[x] \/ m \in writing'[x] \/ \E k \in DOMAIN stdout'[x] : stdout'[x][k].of = m
    BY <1>5 DEF OnWire
  <2>2. CASE m \in inbox'[x] \/ m \in writing'[x]
    BY <2>2 DEF OnWire
  <2>3. CASE \E k \in DOMAIN stdout'[x] : stdout'[x][k].of = m
    <3>1. PICK k \in DOMAIN stdout'[x] : stdout'[x][k].of = m
      BY <2>3
    <3>2. CASE x = n
      <4>1. stdout'[x] = Append(stdout[n], e)
        BY <3>2, <1>2
      <4>2. k \in DOMAIN Append(stdout[n], e) /\ Append(stdout[n], e)[k].of = m
        BY <3>1, <4>1
      <4>3. (k \in DOMAIN stdout[n] /\ stdout[n][k].of = m) \/ e.of = m
        BY <4>2, <1>2, AppendParts
      <4> QED BY <4>3 DEF OnWire
    <3>3. CASE x # n
      BY <3>3, <3>1, <1>2 DEF OnWire
    <3> QED BY <3>2, <3>3
  <2> QED BY <2>1, <2>2, <2>3
<1>6. PendingAgree' /\ PendingHasChild' /\ SeqCounts' /\ LaterIdsFree' /\ OwnAnswer' /\ OneAlive'
  BY <1>1 DEF IInv, PendingAgree, PendingHasChild, SeqCounts, LaterIdsFree, Asked, OwnAnswer,
              OneAlive, Alive
<1>7. WireOwn'
  BY <1>1, <1>5 DEF IInv, WireOwn
<1> QED
  BY <1>4, <1>6, <1>7 DEF IInv

LEMMA ChildKeeps ==
  ASSUME IInv, NEW n \in Children, ChildStep(n)
  PROVE  IInv'
<1>1. /\ inbox \in [Children -> SUBSET Message]
      /\ writing \in [Children -> SUBSET Message]
      /\ noisy \subseteq Children
  BY DEF IInv, TypeOK
<1>2. ASSUME NEW m \in Message, ChildBeginsAnswer(n, m) PROVE IInv'
  <2> DEFINE e == [of |-> m, ends |-> FALSE]
  <2>1. /\ m \in inbox[n]
        /\ inbox' = [inbox EXCEPT ![n] = @ \ {m}]
        /\ writing' = [writing EXCEPT ![n] = {m}]
        /\ stdout' = [stdout EXCEPT ![n] = Append(@, e)]
        /\ UNCHANGED <<clientVars, status, noisy, buffer, callVars, seq, sent, got>>
    BY <1>2 DEF ChildBeginsAnswer
  <2>2. e \in Piece /\ e.of = m /\ OnWire(m)
    BY <2>1, PieceIn DEF OnWire
  <2>3. /\ inbox' \in [Children -> SUBSET Message] /\ writing' \in [Children -> SUBSET Message]
        /\ \A k \in Children : inbox'[k] \subseteq inbox[k] /\ writing'[k] \subseteq writing[k] \cup {m}
    BY <1>1, <2>1
  <2>4. noisy' \subseteq Children
    BY <1>1, <2>1
  <2> HIDE DEF e
  <2> QED BY <2>1, <2>2, <2>3, <2>4, WritingKeeps
<1>3. ASSUME NEW m \in Message, ChildEndsAnswer(n, m) PROVE IInv'
  <2> DEFINE e == [of |-> m, ends |-> TRUE]
  <2>1. /\ m \in writing[n]
        /\ writing' = [writing EXCEPT ![n] = {}]
        /\ stdout' = [stdout EXCEPT ![n] = Append(@, e)]
        /\ UNCHANGED <<clientVars, status, inbox, noisy, buffer, callVars, seq, sent, got>>
    BY <1>3 DEF ChildEndsAnswer
  <2>2. e \in Piece /\ e.of = m /\ OnWire(m)
    BY <2>1, PieceIn DEF OnWire
  <2>3. /\ inbox' \in [Children -> SUBSET Message] /\ writing' \in [Children -> SUBSET Message]
        /\ \A k \in Children : inbox'[k] \subseteq inbox[k] /\ writing'[k] \subseteq writing[k] \cup {m}
    BY <1>1, <2>1
  <2>4. noisy' \subseteq Children
    BY <1>1, <2>1
  <2> HIDE DEF e
  <2> QED BY <2>1, <2>2, <2>3, <2>4, WritingKeeps
<1>4. ASSUME ChildWritesNoise(n) PROVE IInv'
  <2> DEFINE e == [of |-> NotJson, ends |-> TRUE]
  <2>1. /\ noisy' = noisy \cup {n}
        /\ stdout' = [stdout EXCEPT ![n] = Append(@, e)]
        /\ UNCHANGED <<clientVars, status, inbox, writing, buffer, callVars, seq, sent, got>>
    BY <1>4 DEF ChildWritesNoise
  <2>2. e \in Piece /\ e.of \notin Message
    BY PieceIn, NotJsonAssumption
  <2>3. /\ inbox' \in [Children -> SUBSET Message] /\ writing' \in [Children -> SUBSET Message]
        /\ \A k \in Children : inbox'[k] \subseteq inbox[k] /\ writing'[k] \subseteq writing[k] \cup {e.of}
    BY <1>1, <2>1
  <2>4. noisy' \subseteq Children
    BY <1>1, <2>1
  <2> HIDE DEF e
  <2> QED BY <2>1, <2>2, <2>3, <2>4, WritingKeeps
<1>5. ASSUME ChildDies(n) PROVE IInv'
  BY <1>5, StepOutKeeps DEF ChildDies
<1> QED
  BY <1>2, <1>3, <1>4, <1>5 DEF ChildStep

-----------------------------------------------------------------------------
(* The invariant.                                                          *)

LEMMA InitIInv == Init => IInv
<1> SUFFICES ASSUME Init PROVE IInv
  OBVIOUS
<1>1. TypeOK
  <2>1. <<>> \in Seq(Piece)
    BY PieceSeqs
  <2> QED BY <2>1, IdsBound DEF Init, TypeOK, Statuses, Outcomes
<1>2. PendingAgree /\ PendingHasChild /\ LaterIdsFree /\ OwnAnswer
  BY NoCallAssumption DEF Init, PendingAgree, PendingHasChild, LaterIdsFree, OwnAnswer
<1>3. SeqCounts
  BY AskedIsFinite DEF Init, SeqCounts
<1>4. WireOwn
  BY DEF Init, WireOwn, OnWire
<1>5. OneAlive
  BY DEF Init, OneAlive, Alive
<1> QED
  BY <1>1, <1>2, <1>3, <1>4, <1>5 DEF IInv

LEMMA NextIInv == IInv /\ [Next]_vars => IInv'
<1> SUFFICES ASSUME IInv, [Next]_vars PROVE IInv'
  OBVIOUS
<1>1. ASSUME NEW c \in Calls, Request(c) \/ RequestRejected(c) PROVE IInv'
  BY <1>1, RequestKeeps, RejectedKeeps
<1>2. ASSUME NEW i \in Ids, WriteFails(i) \/ Timeout(i) PROVE IInv'
  BY <1>2, WriteFailsKeeps, TimeoutKeeps
<1>3. ASSUME NEW n \in Children, OnStdout(n) PROVE IInv'
  BY <1>3, PartialLineKeeps, ResponseKeeps, BadLineKeeps DEF OnStdout
<1>4. ASSUME NEW n \in Children, OnSpawnError(n) \/ OnClose(n) PROVE IInv'
  BY <1>4, SpawnErrorKeeps, CloseKeeps
<1>5. ASSUME NEW n \in Children, OnExit(n) PROVE IInv'
  BY <1>5, StepOutKeeps DEF OnExit
<1>6. ASSUME NEW n \in Children, ChildStep(n) PROVE IInv'
  BY <1>6, ChildKeeps
<1>7. ASSUME KillAfterGrace PROVE IInv'
  <2>1. ending \in Children
    BY <1>7 DEF KillAfterGrace, IInv, OneAlive
  <2> QED BY <1>7, <2>1, StepOutKeeps DEF KillAfterGrace
<1>8. ASSUME UNCHANGED vars PROVE IInv'
  BY <1>8 DEF vars, IInv, TypeOK, PendingAgree, PendingHasChild, SeqCounts, Asked, LaterIdsFree,
              WireOwn, OnWire, OwnAnswer, OneAlive, Alive
<1> QED
  BY <1>1, <1>2, <1>3, <1>4, <1>5, <1>6, <1>7, <1>8, CloseClientKeeps DEF Next


LEMMA Inductive == Spec => []IInv
BY InitIInv, NextIInv, PTL DEF Spec

(* At every moment a promise waits exactly while the client has one entry  *)
(* and one armed timer for it and a child whose end is still to come       *)
(* (Bookkeeping: #pending, #settle and #failAllPending).                   *)
THEOREM PromisesAreKept == Spec => []Bookkeeping
<1>1. IInv => Bookkeeping
  BY DEF IInv, Bookkeeping
<1> QED
  BY Inductive, <1>1, PTL

(* No call ever gets the response to another one's request, however late,  *)
(* from whichever child and next to whatever noise (OwnAnswer: #onLine).   *)
THEOREM AnswersAreOwn == Spec => []OwnAnswer
<1>1. IInv => OwnAnswer
  BY DEF IInv
<1> QED
  BY Inductive, <1>1, PTL

(* There is never more than one live sidecar, and none once close() has    *)
(* resolved (NoOrphan: #ensureSpawned and close).                          *)
THEOREM NoSidecarOutlives == Spec => []NoOrphan
<1>1. IInv => NoOrphan
  <2>1. IInv => mode \in {"open", "closing", "closed"}
    BY DEF IInv, TypeOK
  <2> QED BY <2>1 DEF IInv, OneAlive, NoOrphan
<1> QED
  BY Inductive, <1>1, PTL

(***************************************************************************)
(* Orders.                                                                 *)
(***************************************************************************)

(* Chunks with scores, finitely many.                                      *)
ChunkKey == [note : Int, seq : Nat]
Scorable(S, score) == S \subseteq ChunkKey /\ IsFiniteSet(S) /\ \A c \in S : score[c] \in Int

(* ORDER BY score DESC, chunk_id ASC, and where a chunk stands in it.      *)
Precedes(score, c, d) == score[c] > score[d] \/ (score[c] = score[d] /\ EarlierId(c, d))
Ahead(S, score, c) == {d \in S : Precedes(score, d, c)}
Place(S, score, c) == Cardinality(Ahead(S, score, c))

(* It is a strict total order.                                             *)
LEMMA TotalOrder ==
  ASSUME NEW S, NEW score, Scorable(S, score)
  PROVE  /\ \A c \in S : ~Precedes(score, c, c)
         /\ \A c, d \in S : c # d => Precedes(score, c, d) \/ Precedes(score, d, c)
         /\ \A b, c, d \in S : Precedes(score, b, c) /\ Precedes(score, c, d)
                                 => Precedes(score, b, d)
<1>1. \A c \in S : score[c] \in Int /\ c.note \in Int /\ c.seq \in Nat
  BY DEF Scorable, ChunkKey
<1>2. \A c, d \in S : c.note = d.note /\ c.seq = d.seq => c = d
  BY DEF Scorable, ChunkKey
<1>3. \A c \in S : ~Precedes(score, c, c)
  BY <1>1 DEF Precedes, EarlierId
<1>4. \A c, d \in S : c # d => Precedes(score, c, d) \/ Precedes(score, d, c)
  BY <1>1, <1>2 DEF Precedes, EarlierId
<1>5. \A b, c, d \in S : Precedes(score, b, c) /\ Precedes(score, c, d) => Precedes(score, b, d)
  BY <1>1 DEF Precedes, EarlierId
<1> QED
  BY <1>3, <1>4, <1>5

(* A chunk stands behind all that precede it.                              *)
LEMMA PlaceRange ==
  ASSUME NEW S, NEW score, Scorable(S, score), NEW c \in S
  PROVE  /\ IsFiniteSet(Ahead(S, score, c))
         /\ Place(S, score, c) \in 0..Cardinality(S) - 1
<1>1. IsFiniteSet(S) /\ IsFiniteSet(Ahead(S, score, c))
  BY FS_Subset DEF Scorable, Ahead
<1>2. Ahead(S, score, c) \subseteq S /\ c \notin Ahead(S, score, c)
  BY TotalOrder DEF Ahead
<1>3. Cardinality(S) \in Nat /\ Place(S, score, c) \in Nat
  BY <1>1, FS_CardinalityType DEF Place
<1>4. Place(S, score, c) <= Cardinality(S) /\ Place(S, score, c) # Cardinality(S)
  BY <1>1, <1>2, FS_Subset DEF Place
<1> QED
  BY <1>1, <1>3, <1>4

(* A chunk that precedes another stands before it ...                      *)
LEMMA PlaceGrows ==
  ASSUME NEW S, NEW score, Scorable(S, score), NEW c \in S, NEW d \in S, Precedes(score, c, d)
  PROVE  Place(S, score, c) < Place(S, score, d)
<1> DEFINE A == Ahead(S, score, c)
           B == Ahead(S, score, d)
<1>1. A \in SUBSET B /\ c \in B /\ c \notin A
  BY TotalOrder DEF Ahead
<1>2. IsFiniteSet(A) /\ IsFiniteSet(B)
  BY PlaceRange
<1>3. Cardinality(A) \in Nat /\ Cardinality(B) \in Nat
  BY <1>2, FS_CardinalityType
<1> HIDE DEF A, B
<1>4. Cardinality(A) <= Cardinality(B) /\ Cardinality(A) # Cardinality(B)
  BY <1>1, <1>2, FS_Subset
<1>5. Cardinality(A) < Cardinality(B)
  BY <1>3, <1>4
<1> QED
  BY <1>5 DEF Place, A, B

(* ... so no two stand in one place.                                       *)
LEMMA PlaceIsOwn ==
  ASSUME NEW S, NEW score, Scorable(S, score), NEW c \in S, NEW d \in S,
         Place(S, score, c) = Place(S, score, d)
  PROVE  c = d
<1>1. Place(S, score, c) \in Int /\ Place(S, score, d) \in Int
  BY PlaceRange
<1> QED
  BY <1>1, TotalOrder, PlaceGrows

(* Every place is taken.                                                   *)
LEMMA PlacesTaken ==
  ASSUME NEW S, NEW score, Scorable(S, score), NEW n \in 0..Cardinality(S) - 1
  PROVE  \E c \in S : Place(S, score, c) = n
<1> DEFINE f == [c \in S |-> Place(S, score, c)]
           N == 0..Cardinality(S) - 1
<1>1. IsFiniteSet(S) /\ Cardinality(S) \in Nat
  BY FS_CardinalityType DEF Scorable
<1>2. IsFiniteSet(N) /\ Cardinality(N) = Cardinality(S)
  BY <1>1, FS_Interval
<1>3. f \in [S -> N]
  BY PlaceRange
<1>4. \A c, d \in S : f[c] = f[d] => c = d
  BY PlaceIsOwn
<1>5. f \in Injection(S, N)
  BY <1>3, <1>4 DEF Injection, IsInjective
<1>6. f \in Surjection(S, N)
  BY <1>2, <1>5, FS_Injection
<1> QED
  BY <1>6 DEF Surjection

(* What is ranked: the n first chunks, at their places, with their scores. *)
LEMMA RankedRows ==
  ASSUME NEW S, NEW score, Scorable(S, score), NEW n \in Nat
  PROVE  LET R == Ranked(S, score, n)
         IN /\ Len(R) = Smaller(n, Cardinality(S))
            /\ DOMAIN R = 1..Len(R)
            /\ Len(R) \in Nat
            /\ \A i \in DOMAIN R : /\ R[i] = [id |-> R[i].id, score |-> score[R[i].id]]
                                   /\ R[i].id \in S
                                   /\ Place(S, score, R[i].id) = i - 1
<1> DEFINE m == Smaller(n, Cardinality(S))
           nth(i) == CHOOSE c \in S : Cardinality({d \in S : Precedes(score, d, c)}) = i - 1
           row(i) == [id |-> nth(i), score |-> score[nth(i)]]
           R == [i \in 1..m |-> row(i)]
<1>1. Ranked(S, score, n) = R
  BY DEF Ranked, Precedes
<1>2. Cardinality(S) \in Nat
  BY FS_CardinalityType DEF Scorable
<1>3. m \in Nat /\ m <= Cardinality(S)
  BY <1>2 DEF Smaller
<1>4. Len(R) = m /\ DOMAIN R = 1..m
  BY <1>3
<1>5. ASSUME NEW i \in 1..m PROVE nth(i) \in S /\ Place(S, score, nth(i)) = i - 1
  <2>1. i - 1 \in 0..Cardinality(S) - 1
    BY <1>2, <1>3
  <2>2. \E c \in S : Cardinality({d \in S : Precedes(score, d, c)}) = i - 1
    BY <2>1, PlacesTaken DEF Place, Ahead
  <2> QED
    BY <2>2 DEF Place, Ahead
<1> HIDE DEF nth
<1>6. \A i \in 1..m : R[i] = row(i) /\ row(i).id = nth(i)
  OBVIOUS
<1> QED
  BY <1>1, <1>3, <1>4, <1>5, <1>6

(* The rows of a ranking: no chunk twice, in order, and nothing that is    *)
(* left out precedes anything that is shown.                               *)
IsRanking(rows, S, score) ==
  /\ Len(rows) \in Nat
  /\ DOMAIN rows = 1..Len(rows)
  /\ \A i \in DOMAIN rows : rows[i].score = score[rows[i].id]
  /\ IdsOf(rows) \subseteq S
  /\ IsFiniteSet(IdsOf(rows)) /\ Cardinality(IdsOf(rows)) = Len(rows)
  /\ \A i, j \in DOMAIN rows : rows[i].id = rows[j].id => i = j
  /\ \A i, j \in DOMAIN rows : i < j => Precedes(score, rows[i].id, rows[j].id)
  /\ \A c \in S : \A i \in DOMAIN rows :
       Precedes(score, c, rows[i].id) => \E h \in DOMAIN rows : h < i /\ rows[h].id = c

(* What Ranked makes is a ranking, as long as limit and set allow.         *)
LEMMA RankedIsRanking ==
  ASSUME NEW S, NEW score, Scorable(S, score), NEW n \in Nat
  PROVE  /\ IsRanking(Ranked(S, score, n), S, score)
         /\ Len(Ranked(S, score, n)) = Smaller(n, Cardinality(S))
<1> DEFINE R == Ranked(S, score, n)
           f == [i \in DOMAIN R |-> R[i].id]
<1>1. /\ Len(R) = Smaller(n, Cardinality(S))
      /\ DOMAIN R = 1..Len(R)
      /\ Len(R) \in Nat
      /\ \A i \in DOMAIN R : /\ R[i] = [id |-> R[i].id, score |-> score[R[i].id]]
                             /\ R[i].id \in S
                             /\ Place(S, score, R[i].id) = i - 1
  BY RankedRows
<1>2. IsFiniteSet(S) /\ Cardinality(S) \in Nat
  BY FS_CardinalityType DEF Scorable
<1> HIDE DEF R
<1>3. \A i \in DOMAIN R : R[i].score = score[R[i].id]
  <2>1. ASSUME NEW i \in DOMAIN R PROVE R[i].score = score[R[i].id]
    <3> DEFINE x == R[i].id
               y == score[x]
    <3>1. R[i] = [id |-> x, score |-> y]
      BY <1>1
    <3> HIDE DEF y
    <3>2. R[i].score = y
      BY <3>1
    <3> QED
      BY <3>2 DEF y
  <2> QED
    BY <2>1
<1>4. IdsOf(R) \subseteq S
  BY <1>1 DEF IdsOf
<1>5. \A i, j \in DOMAIN R : R[i].id = R[j].id => i = j
  <2>1. ASSUME NEW i \in DOMAIN R, NEW j \in DOMAIN R, R[i].id = R[j].id PROVE i = j
    <3>1. i \in Int /\ j \in Int
      BY <1>1
    <3>2. i - 1 = j - 1
      BY <1>1, <2>1
    <3> QED
      BY <3>1, <3>2
  <2> QED
    BY <2>1
<1>6. IsFiniteSet(IdsOf(R)) /\ Cardinality(IdsOf(R)) = Len(R)
  <2>1. IsFiniteSet(DOMAIN R) /\ Cardinality(DOMAIN R) = Len(R)
    BY <1>1, FS_Interval
  <2>2. f \in Bijection(DOMAIN R, IdsOf(R))
    BY <1>5 DEF IdsOf, Bijection, Injection, Surjection, IsInjective
  <2>3. ExistsBijection(DOMAIN R, IdsOf(R))
    BY <2>2 DEF ExistsBijection
  <2> QED
    BY <2>1, <2>3, FS_Bijection
<1>7. \A i, j \in DOMAIN R : i < j => Precedes(score, R[i].id, R[j].id)
  <2>1. ASSUME NEW i \in DOMAIN R, NEW j \in DOMAIN R, i < j
        PROVE  Precedes(score, R[i].id, R[j].id)
    <3>1. R[i].id \in S /\ R[j].id \in S /\ i \in Int /\ j \in Int
      BY <1>1
    <3>2. R[i].id # R[j].id
      BY <1>5, <2>1, <3>1
    <3>3. Place(S, score, R[i].id) = i - 1 /\ Place(S, score, R[j].id) = j - 1
      BY <1>1
    <3>4. ~(Place(S, score, R[j].id) < Place(S, score, R[i].id))
      BY <2>1, <3>1, <3>3
    <3> QED
      BY <3>1, <3>2, <3>4, TotalOrder, PlaceGrows
  <2> QED
    BY <2>1
<1>8. ASSUME NEW c \in S, NEW i \in DOMAIN R, Precedes(score, c, R[i].id)
      PROVE  \E h \in DOMAIN R : h < i /\ R[h].id = c
  <2> DEFINE h == Place(S, score, c) + 1
  <2>1. R[i].id \in S /\ Place(S, score, R[i].id) = i - 1 /\ i \in 1..Len(R)
    BY <1>1
  <2>2. Place(S, score, c) \in 0..Cardinality(S) - 1 /\ Place(S, score, c) < i - 1
    BY <1>8, <2>1, PlaceRange, PlaceGrows
  <2>3. h \in DOMAIN R /\ h < i
    BY <1>1, <1>2, <2>1, <2>2
  <2>4. R[h].id \in S /\ Place(S, score, R[h].id) = h - 1
    BY <1>1, <2>3
  <2>5. Place(S, score, R[h].id) = Place(S, score, c)
    BY <2>2, <2>4
  <2>6. R[h].id = c
    BY <2>4, <2>5, PlaceIsOwn
  <2> QED
    BY <2>3, <2>6
<1>9. IsRanking(R, S, score)
  BY <1>1, <1>3, <1>4, <1>5, <1>6, <1>7, <1>8 DEF IsRanking
<1> QED
  BY <1>1, <1>9 DEF R

(* The one before the others is in the rows.                               *)
LEMMA ShownBefore ==
  ASSUME NEW rows, NEW S, NEW score, IsRanking(rows, S, score),
         NEW c \in S, NEW d \in IdsOf(rows), Precedes(score, c, d)
  PROVE  c \in IdsOf(rows)
BY DEF IsRanking, IdsOf

(* Scores of a ranking, lowest and highest.                                *)
Scores(rows) == {rows[i].score : i \in DOMAIN rows}

(* The scores of a ranking have a lowest and a highest.                    *)
LEMMA ScoresOfRanking ==
  ASSUME NEW rows, NEW S, NEW score, Scorable(S, score), IsRanking(rows, S, score)
  PROVE  /\ Scores(rows) \subseteq Int
         /\ IsFiniteSet(Scores(rows)) /\ Cardinality(Scores(rows)) \in Nat
         /\ Scores(rows) # {} => /\ Lowest(Scores(rows)) \in Scores(rows)
                                 /\ Highest(Scores(rows)) \in Scores(rows)
                                 /\ \A x \in Scores(rows) : Lowest(Scores(rows)) <= x
                                 /\ \A x \in Scores(rows) : x <= Highest(Scores(rows))
<1> DEFINE m == Len(rows)
           f == [i \in DOMAIN rows |-> rows[i].score]
<1>1. m \in Nat /\ DOMAIN rows = 1..m
  BY DEF IsRanking
<1>2. \A i \in DOMAIN rows : rows[i].score \in Int
  BY DEF IsRanking, Scorable, IdsOf
<1>3. \A i, j \in DOMAIN rows : i <= j => rows[j].score <= rows[i].score
  <2>1. ASSUME NEW i \in DOMAIN rows, NEW j \in DOMAIN rows, i <= j
        PROVE  rows[j].score <= rows[i].score
    <3>1. CASE i = j
      BY <1>2, <3>1
    <3>2. CASE i # j
      <4>1. i < j
        BY <1>1, <2>1, <3>2
      <4>2. Precedes(score, rows[i].id, rows[j].id)
        BY <4>1 DEF IsRanking
      <4>3. rows[i].score = score[rows[i].id] /\ rows[j].score = score[rows[j].id]
        BY DEF IsRanking
      <4> QED
        BY <1>2, <4>2, <4>3 DEF Precedes
    <3> QED
      BY <3>1, <3>2
  <2> QED
    BY <2>1
<1>4. Scores(rows) \subseteq Int
  BY <1>2 DEF Scores
<1>5. IsFiniteSet(Scores(rows)) /\ Cardinality(Scores(rows)) \in Nat
  <2>1. f \in Surjection(DOMAIN rows, Scores(rows))
    BY DEF Surjection, Scores
  <2>2. IsFiniteSet(DOMAIN rows)
    BY <1>1, FS_Interval
  <2> QED
    BY <2>1, <2>2, FS_Surjection, FS_CardinalityType
<1>6. ASSUME Scores(rows) # {}
      PROVE  /\ Lowest(Scores(rows)) \in Scores(rows)
             /\ Highest(Scores(rows)) \in Scores(rows)
             /\ \A x \in Scores(rows) : Lowest(Scores(rows)) <= x
             /\ \A x \in Scores(rows) : x <= Highest(Scores(rows))
  <2>1. 1 \in DOMAIN rows /\ m \in DOMAIN rows
    BY <1>1, <1>6 DEF Scores
  <2>2. /\ rows[m].score \in Scores(rows) /\ \A x \in Scores(rows) : rows[m].score <= x
        /\ rows[1].score \in Scores(rows) /\ \A x \in Scores(rows) : x <= rows[1].score
    BY <1>1, <1>3, <2>1 DEF Scores
  <2> HIDE DEF m
  <2>3. \E x \in Scores(rows) : \A y \in Scores(rows) : x <= y
    BY <2>2
  <2>4. \E x \in Scores(rows) : \A y \in Scores(rows) : y <= x
    BY <2>2
  <2> QED
    BY <2>3, <2>4 DEF Lowest, Highest
<1> QED
  BY <1>4, <1>5, <1>6

(* Two scores or more are a spread.                                        *)
LEMMA SpreadIsPositive ==
  ASSUME NEW rows, NEW S, NEW score, Scorable(S, score), IsRanking(rows, S, score)
  PROVE  /\ Spread(rows) \in Nat \ {0}
         /\ \A x, y \in Scores(rows) : x # y => ~(Cardinality(Scores(rows)) < 2)
<1> DEFINE T == Scores(rows)
<1>1. /\ T \subseteq Int /\ IsFiniteSet(T) /\ Cardinality(T) \in Nat
      /\ T # {} => /\ Lowest(T) \in T /\ Highest(T) \in T
                   /\ \A x \in T : Lowest(T) <= x
                   /\ \A x \in T : x <= Highest(T)
  BY ScoresOfRanking
<1>2. Spread(rows) = IF Cardinality(T) < 2 THEN 1 ELSE Highest(T) - Lowest(T)
  BY DEF Spread, Scores
<1> HIDE DEF T
<1>3. ASSUME NEW x \in T, NEW y \in T, x # y PROVE ~(Cardinality(T) < 2)
  <2>1. Cardinality({x}) = 1 /\ IsFiniteSet({x})
    BY FS_Singleton
  <2>2. {x} \in SUBSET T /\ {x} # T
    BY <1>3
  <2>3. Cardinality({x}) <= Cardinality(T) /\ Cardinality({x}) # Cardinality(T)
    BY <1>1, <2>2, FS_Subset
  <2> QED
    BY <1>1, <2>1, <2>3
<1>4. ASSUME ~(Cardinality(T) < 2) PROVE Highest(T) - Lowest(T) \in Nat \ {0}
  <2>1. T # {}
    BY <1>4, FS_EmptySet
  <2>2. Highest(T) # Lowest(T)
    <3> SUFFICES ASSUME Highest(T) = Lowest(T) PROVE FALSE
      OBVIOUS
    <3> DEFINE h == Highest(T)
    <3>1. h \in T /\ h \in Int /\ \A x \in T : x \in Int /\ x <= h /\ h <= x
      BY <1>1, <2>1
    <3> HIDE DEF h
    <3>4. ASSUME NEW x \in T PROVE x = h
      BY <3>1
    <3>2. T = {h}
      BY <3>1, <3>4
    <3>3. Cardinality(T) = 1
      BY <3>2, FS_Singleton
    <3> QED
      BY <1>4, <3>3
  <2>3. Highest(T) \in Int /\ Lowest(T) \in Int /\ Lowest(T) <= Highest(T)
    BY <1>1, <2>1
  <2> QED
    BY <2>2, <2>3
<1>5. Spread(rows) \in Nat \ {0}
  BY <1>2, <1>4
<1> QED
  BY <1>3, <1>5 DEF T

(* Normalising keeps the order of two chunks of a list, and nothing that   *)
(* is not in it comes before what is.                                      *)
LEMMA NormalizedOrder ==
  ASSUME NEW rows, NEW S, NEW score, Scorable(S, score), IsRanking(rows, S, score)
  PROVE  /\ \A c \in S : Normalized(rows, c) \in Nat
         /\ \A c \in S : c \notin IdsOf(rows) => Normalized(rows, c) = 0
         /\ \A c, d \in IdsOf(rows) :
              score[c] > score[d] => Normalized(rows, c) > Normalized(rows, d)
<1> DEFINE T == Scores(rows)
           row(c) == CHOOSE r \in {rows[i] : i \in DOMAIN rows} : r.id = c
<1>1. /\ T \subseteq Int /\ Cardinality(T) \in Nat
      /\ T # {} => Lowest(T) \in T /\ \A x \in T : Lowest(T) <= x
  BY ScoresOfRanking
<1>2. \A c : Normalized(rows, c) =
        IF c \notin IdsOf(rows) THEN 0
        ELSE IF Cardinality(T) < 2 THEN 1 ELSE row(c).score - Lowest(T)
  BY DEF Normalized, Scores
<1>3. ASSUME NEW c \in IdsOf(rows)
      PROVE  row(c).score = score[c] /\ score[c] \in T /\ c \in S
  <2>1. PICK i \in DOMAIN rows : rows[i].id = c
    BY DEF IdsOf
  <2>2. row(c) \in {rows[j] : j \in DOMAIN rows} /\ row(c).id = c
    BY <2>1
  <2> HIDE DEF row
  <2>3. PICK j \in DOMAIN rows : row(c) = rows[j]
    BY <2>2
  <2>4. row(c).score = score[c]
    BY <2>2, <2>3 DEF IsRanking
  <2>5. rows[i].score = score[c] /\ c \in S
    BY <2>1 DEF IsRanking, IdsOf
  <2> QED
    BY <2>4, <2>5 DEF Scores
<1> HIDE DEF row
<1>4. ASSUME NEW c \in S PROVE Normalized(rows, c) \in Nat
  <2>1. CASE c \in IdsOf(rows)
    <3>1. score[c] \in T /\ row(c).score = score[c]
      BY <1>3, <2>1
    <3> HIDE DEF T
    <3>2. Lowest(T) \in Int /\ score[c] \in Int /\ Lowest(T) <= score[c]
      BY <1>1, <3>1
    <3> QED
      BY <1>2, <2>1, <3>1, <3>2
  <2>2. CASE c \notin IdsOf(rows)
    BY <1>2, <2>2
  <2> QED
    BY <2>1, <2>2
<1>5. ASSUME NEW c \in IdsOf(rows), NEW d \in IdsOf(rows), score[c] > score[d]
      PROVE  Normalized(rows, c) > Normalized(rows, d)
  <2>1. /\ score[c] \in T /\ row(c).score = score[c] /\ c \in S
        /\ score[d] \in T /\ row(d).score = score[d] /\ d \in S
    BY <1>3
  <2>2. score[c] \in Int /\ score[d] \in Int /\ Lowest(T) \in Int
    BY <1>1, <2>1
  <2>3. score[c] # score[d]
    BY <1>5, <2>2
  <2>4. ~(Cardinality(T) < 2)
    BY <2>1, <2>3, SpreadIsPositive
  <2> HIDE DEF T
  <2> QED
    BY <1>2, <1>5, <2>1, <2>2, <2>4
<1> QED
  BY <1>2, <1>4, <1>5

(***************************************************************************)
(* Filters.                                                                *)
(***************************************************************************)

(* A set of numbers has a least one.                                       *)
LEMMA LeastNumber ==
  ASSUME NEW S, S \subseteq Nat, S # {}
  PROVE  \E n \in S : \A m \in S : n <= m
<1> DEFINE T == {0..n : n \in S}
<1>1. \A n \in Nat : IsFiniteSet(0..n) /\ 0..n \subseteq Nat
  BY FS_Interval
<1>2. T \subseteq FiniteSubsetsOf(Nat) /\ T # {}
  BY <1>1 DEF FiniteSubsetsOf
<1> HIDE DEF T
<1>3. PICK X \in T : \A Y \in T : <<Y, X>> \notin StrictSubsetOrdering(Nat)
  BY <1>2, FS_StrictSubsetOrderingWellFounded, WFMin
<1>4. PICK n \in S : X = 0..n
  BY DEF T
<1>5. ASSUME NEW m \in S, ~(n <= m) PROVE FALSE
  <2>1. 0..m \in T /\ 0..m \in SUBSET Nat /\ X \in SUBSET Nat
    BY <1>1, <1>4 DEF T
  <2>2. 0..m \subseteq X /\ n \in X /\ n \notin 0..m
    BY <1>4, <1>5
  <2>3. <<0..m, X>> \in StrictSubsetOrdering(Nat)
    BY <2>1, <2>2 DEF StrictSubsetOrdering
  <2> QED
    BY <1>3, <2>1, <2>3
<1> QED
  BY <1>5

(* Ranking's least of a set of numbers.                                    *)
LEMMA LowestOf ==
  ASSUME NEW T \in SUBSET Nat, T # {}
  PROVE  Lowest(T) \in T /\ \A n \in T : Lowest(T) <= n
BY LeastNumber DEF Lowest

(* A title is that of the first note, by path, that has it.                *)
FirstTitled(notes, t, id) ==
  \E j \in DOMAIN notes :
    notes[j].id = id /\ notes[j].title = t /\ \A h \in 1..j - 1 : notes[h].title # t

(* TitleToId finds it, and nothing else.                                   *)
LEMMA TitleOfFirst ==
  ASSUME NEW notes \in Seq(NoteRecord), NEW t, NEW id
  PROVE  id = TitleToId(notes, t) /\ id # Absent <=> FirstTitled(notes, t, id)
<1> DEFINE named == {i \in DOMAIN notes : notes[i].title = t}
           n == Lowest(named)
<1>1. /\ DOMAIN notes = 1..Len(notes) /\ Len(notes) \in Nat
      /\ \A i \in DOMAIN notes : notes[i].id \in Int
  <2>1. \A i \in DOMAIN notes : notes[i] \in NoteRecord
    OBVIOUS
  <2> QED
    BY <2>1 DEF NoteRecord
<1>2. Absent \notin Int
  BY AbsentAssumption
<1>3. TitleToId(notes, t) = IF named = {} THEN Absent ELSE notes[n].id
  BY DEF TitleToId
<1>4. CASE named = {}
  BY <1>3, <1>4 DEF FirstTitled
<1>5. CASE named # {}
  <2>1. named \in SUBSET Nat
    BY <1>1
  <2>2. n \in named /\ \A i \in named : n <= i
    BY <1>5, <2>1, LowestOf
  <2> HIDE DEF n
  <2>3. n \in DOMAIN notes /\ notes[n].title = t
    BY <2>2
  <2>4. \A h \in 1..n - 1 : notes[h].title # t
    BY <1>1, <2>2, <2>3
  <2>5. FirstTitled(notes, t, notes[n].id)
    BY <2>3, <2>4 DEF FirstTitled
  <2>6. ASSUME NEW j \in DOMAIN notes, notes[j].title = t,
               \A h \in 1..j - 1 : notes[h].title # t
        PROVE  j = n
    BY <1>1, <2>2, <2>3, <2>4, <2>6
  <2>7. FirstTitled(notes, t, id) => id = notes[n].id
    BY <2>6 DEF FirstTitled
  <2>8. notes[n].id # Absent
    BY <1>1, <1>2, <2>3
  <2> QED
    BY <1>3, <1>5, <2>5, <2>7, <2>8
<1> QED
  BY <1>4, <1>5

(* Whatever is filed is filed for a note: an edge for each reference ...   *)
LEMMA EdgesRefer ==
  ASSUME NEW a, NEW b, vault.notes \in Seq(NoteRecord)
  PROVE  [from |-> a, to |-> b] \in GraphEdges(vault.notes)
           <=> \E i \in DOMAIN vault.notes : vault.notes[i].id = a /\ Refers(i, b)
<1> DEFINE notes == vault.notes
           targets(n) == n.entities \cup ({TitleToId(notes, t) : t \in n.wikilinks} \ {Absent})
           edges(i) == {[from |-> notes[i].id, to |-> t] : t \in targets(notes[i]) \ {notes[i].id}}
<1>1. GraphEdges(notes) = UNION {edges(i) : i \in DOMAIN notes}
  BY DEF GraphEdges
<1>2. ASSUME NEW i \in DOMAIN notes
      PROVE  b \in targets(notes[i]) \ {notes[i].id} <=> Refers(i, b)
  <2>1. b \in {TitleToId(notes, t) : t \in notes[i].wikilinks} \ {Absent}
          <=> \E t \in notes[i].wikilinks : b = TitleToId(notes, t) /\ b # Absent
    OBVIOUS
  <2>2. b \in {TitleToId(notes, t) : t \in notes[i].wikilinks} \ {Absent}
          <=> \E t \in notes[i].wikilinks : FirstTitled(notes, t, b)
    BY <2>1, TitleOfFirst
  <2>3. (\E t \in notes[i].wikilinks : FirstTitled(notes, t, b))
          <=> \E j \in DOMAIN notes :
                /\ notes[j].id = b
                /\ notes[j].title \in notes[i].wikilinks
                /\ \A h \in 1..j - 1 : notes[h].title # notes[j].title
    BY DEF FirstTitled
  <2> QED
    BY <2>2, <2>3 DEF Refers
<1>3. ASSUME NEW i \in DOMAIN notes
      PROVE  [from |-> a, to |-> b] \in edges(i)
               <=> notes[i].id = a /\ b \in targets(notes[i]) \ {notes[i].id}
  <2> HIDE DEF targets
  <2>1. \A x, y : [from |-> a, to |-> b] = [from |-> x, to |-> y] <=> a = x /\ b = y
    <3> SUFFICES ASSUME NEW x, NEW y, [from |-> a, to |-> b] = [from |-> x, to |-> y]
                 PROVE  a = x /\ b = y
      OBVIOUS
    <3>1. [from |-> a, to |-> b].from = a /\ [from |-> a, to |-> b].to = b
      OBVIOUS
    <3>2. [from |-> x, to |-> y].from = x /\ [from |-> x, to |-> y].to = y
      OBVIOUS
    <3> QED
      BY <3>1, <3>2
  <2> QED
    BY <2>1
<1> HIDE DEF targets, edges
<1>4. [from |-> a, to |-> b] \in GraphEdges(notes)
        <=> \E i \in DOMAIN notes : [from |-> a, to |-> b] \in edges(i)
  BY <1>1
<1> QED
  BY <1>2, <1>3, <1>4

(* The neighbourhood of a note is the note and what it is linked with ...  *)
LEMMA NeighboursLinked ==
  ASSUME vault.notes \in Seq(NoteRecord), NEW model, NEW near, NEW id,
         index = Index(vault.notes, vault.events, model)
  PROVE  id \in Neighbourhood(index, near) <=> id = near \/ Linked(near, id)
<1> DEFINE E == GraphEdges(vault.notes)
<1>1. index.edges = E
  BY DEF Index
<1>2. \A e \in E : e = [from |-> e.from, to |-> e.to]
  BY DEF GraphEdges
<1> HIDE DEF E
<1>3. id \in Neighbourhood(index, near)
        <=> \/ id = near
            \/ \E e \in E : e.from = near /\ e.to = id
            \/ \E e \in E : e.to = near /\ e.from = id
  BY <1>1 DEF Neighbourhood
<1>4. \A a, b : (\E e \in E : e.from = a /\ e.to = b) <=> [from |-> a, to |-> b] \in E
  <2>1. ASSUME NEW a, NEW b, NEW e \in E, e.from = a, e.to = b PROVE [from |-> a, to |-> b] \in E
    BY <1>2, <2>1
  <2>2. ASSUME NEW a, NEW b, [from |-> a, to |-> b] \in E
        PROVE  \E e \in E : e.from = a /\ e.to = b
    BY <2>2
  <2> QED
    BY <2>1, <2>2
<1>5. \A a, b : [from |-> a, to |-> b] \in E
                  <=> \E i \in DOMAIN vault.notes : vault.notes[i].id = a /\ Refers(i, b)
  BY EdgesRefer DEF E
<1>6. Linked(near, id) <=> [from |-> near, to |-> id] \in E \/ [from |-> id, to |-> near] \in E
  BY <1>5 DEF Linked
<1> QED
  BY <1>3, <1>4, <1>6

(* ... and a row for each date.                                            *)
LEMMA RowsDate ==
  ASSUME vault.notes \in Seq(NoteRecord), vault.events \subseteq EventRecord,
         NEW model, index = Index(vault.notes, vault.events, model),
         NEW h \in DOMAIN vault.notes, NEW lower, NEW upper
  PROVE  vault.notes[h].id \in InRange(index, lower, upper)
           <=> \E t \in Dates(vault.notes[h].id) : /\ lower # Absent => t >= lower
                                                   /\ upper # Absent => t <= upper
<1> DEFINE notes == vault.notes
           id == notes[h].id
           R == TemporalRows(notes, vault.events)
           fits(t) == /\ lower # Absent => t >= lower
                      /\ upper # Absent => t <= upper
<1>1. index.temporal = R
  BY DEF Index
<1>2. id \in InRange(index, lower, upper)
        <=> \E r \in R : r.note = id /\ r.ts # Unparseable /\ fits(r.ts)
  <2> HIDE DEF R
  <2> QED
    BY <1>1 DEF InRange
<1>3. \A n, t : (\E r \in R : r.note = n /\ r.ts = t)
                  <=> \/ \E i \in DOMAIN notes : notes[i].id = n /\ t \in notes[i].dates
                      \/ \E e \in vault.events : /\ e.subject = n /\ e.at = t
                                                 /\ \E i \in DOMAIN notes : notes[i].id = e.subject
  <2> DEFINE P == UNION {{[note |-> notes[i].id, ts |-> t] : t \in notes[i].dates} : i \in DOMAIN notes}
             Q == {[note |-> e.subject, ts |-> e.at] :
                     e \in {e \in vault.events : \E i \in DOMAIN notes : notes[i].id = e.subject}}
  <2>1. R = P \cup Q
    BY Zenon DEF TemporalRows
  <2>2. \A r : r \in P <=> \E i \in DOMAIN notes : \E t \in notes[i].dates :
                             r = [note |-> notes[i].id, ts |-> t]
    OBVIOUS
  <2>3. \A r : r \in Q <=> \E e \in vault.events :
                             /\ \E i \in DOMAIN notes : notes[i].id = e.subject
                             /\ r = [note |-> e.subject, ts |-> e.at]
    OBVIOUS
  <2> HIDE DEF P, Q, R
  <2> SUFFICES ASSUME NEW n, NEW t
               PROVE (\E r \in R : r.note = n /\ r.ts = t)
                  <=> \/ \E i \in DOMAIN notes : notes[i].id = n /\ t \in notes[i].dates
                      \/ \E e \in vault.events : /\ e.subject = n /\ e.at = t
                                                 /\ \E i \in DOMAIN notes : notes[i].id = e.subject
    OBVIOUS
  <2>4. (\E r \in P : r.note = n /\ r.ts = t)
          <=> \E i \in DOMAIN notes : notes[i].id = n /\ t \in notes[i].dates
    <3>1. ASSUME NEW i \in DOMAIN notes, notes[i].id = n, t \in notes[i].dates
          PROVE  \E r \in P : r.note = n /\ r.ts = t
      <4>1. [note |-> n, ts |-> t] \in P
        BY <2>2, <3>1
      <4> QED
        BY <4>1
    <3>2. ASSUME NEW r \in P, r.note = n, r.ts = t
          PROVE  \E i \in DOMAIN notes : notes[i].id = n /\ t \in notes[i].dates
      BY <2>2, <3>2
    <3> QED
      BY <3>1, <3>2
  <2>5. (\E r \in Q : r.note = n /\ r.ts = t)
          <=> \E e \in vault.events : /\ e.subject = n /\ e.at = t
                                      /\ \E i \in DOMAIN notes : notes[i].id = e.subject
    <3>1. ASSUME NEW e \in vault.events, e.subject = n, e.at = t,
                 \E i \in DOMAIN notes : notes[i].id = e.subject
          PROVE  \E r \in Q : r.note = n /\ r.ts = t
      <4>1. [note |-> n, ts |-> t] \in Q
        BY <2>3, <3>1
      <4> QED
        BY <4>1
    <3>2. ASSUME NEW r \in Q, r.note = n, r.ts = t
          PROVE  \E e \in vault.events : /\ e.subject = n /\ e.at = t
                                      /\ \E i \in DOMAIN notes : notes[i].id = e.subject
      BY <2>3, <3>2
    <3> QED
      BY <3>1, <3>2
  <2> QED
    BY <2>1, <2>4, <2>5
<1>4. \A t : t \in Dates(id)
               <=> /\ t # Unparseable
                   /\ \/ \E i \in DOMAIN notes : notes[i].id = id /\ t \in notes[i].dates
                      \/ \E e \in vault.events : e.subject = id /\ e.at = t
  <2> DEFINE D == UNION {notes[i].dates : i \in {i \in DOMAIN notes : notes[i].id = id}}
             F == {e.at : e \in {e \in vault.events : e.subject = id}}
  <2>1. Dates(id) = (D \cup F) \ {Unparseable}
    BY Zenon DEF Dates
  <2>2. \A t : t \in D <=> \E i \in DOMAIN notes : notes[i].id = id /\ t \in notes[i].dates
    OBVIOUS
  <2>3. \A t : t \in F <=> \E e \in vault.events : e.subject = id /\ e.at = t
    OBVIOUS
  <2> HIDE DEF D, F
  <2> QED
    BY <2>1, <2>2, <2>3
<1> HIDE DEF R, fits
<1>5. (\E r \in R : r.note = id /\ r.ts # Unparseable /\ fits(r.ts))
        <=> \E t \in Dates(id) : fits(t)
  <2>1. \A t : t \in Dates(id) <=> t # Unparseable /\ \E r \in R : r.note = id /\ r.ts = t
    BY <1>3, <1>4
  <2> QED
    BY <2>1
<1> QED
  BY <1>2, <1>5 DEF fits

(* What the answer at hand is an answer to.                                *)
VaultOK == vault \in [notes : Seq(NoteRecord) \ {<<>>}, events : SUBSET EventRecord]
IndexOK ==
  index # NoIndex => \E model \in IndexModels : index = Index(vault.notes, vault.events, model)
AnswerOK ==
  Answered =>
    LET ask == asked.ask
    IN /\ index # NoIndex
       /\ asked \in Scored(index)
       /\ Malformed(ask) = "no" /\ Unparseable \notin {ask.from, ask.to} /\ ~Mismatched(ask)
       /\ reply.hits = Rows(index, ask, asked.bm25, asked.cosine, AllowedNotes(index, ask))
RetrievalOK == VaultOK /\ IndexOK /\ AnswerOK

Allowed == AllowedNotes(index, asked.ask)
Passing == Admitted(index, Allowed)

(* The facts about a question that has been answered.                      *)
LEMMA AnsweredFacts ==
  ASSUME RetrievalOK, Answered
  PROVE  LET ask == asked.ask
         IN /\ ask.k \in Nat \ {0} /\ ask.mode \in {"lexical", "vector", "hybrid"}
            /\ ask.weight \in 0..WholeWeight
            /\ ask.near \in Int \cup {Absent}
            /\ ask.from \in Int \cup {Absent} /\ ask.to \in Int \cup {Absent}
            /\ asked.bm25 \in [index.chunks -> Nat] /\ asked.cosine \in [index.chunks -> Int]
            /\ ~Mismatched(ask)
            /\ reply.hits = Rows(index, ask, asked.bm25, asked.cosine, Allowed)
<1> DEFINE ask == asked.ask
<1>1. /\ index # NoIndex /\ asked \in Scored(index)
      /\ Malformed(ask) = "no" /\ Unparseable \notin {ask.from, ask.to} /\ ~Mismatched(ask)
      /\ reply.hits = Rows(index, ask, asked.bm25, asked.cosine, Allowed)
  BY DEF RetrievalOK, AnswerOK, Allowed
<1>2. /\ ask \in QueryRequest
      /\ asked.bm25 \in [index.chunks -> Nat] /\ asked.cosine \in [index.chunks -> Int]
  BY <1>1 DEF Scored
<1>3. ask.k \in Int /\ ask.near \in Int \cup {Absent, Blank}
      /\ ask.from \in Int \cup {Absent, Blank, Unparseable}
      /\ ask.to \in Int \cup {Absent, Blank, Unparseable}
  BY <1>2 DEF QueryRequest
<1>4. ~Untold(ask) /\ ~ModeUnknown(ask)
      /\ ask.weight \in 0..WholeWeight /\ Blank \notin {ask.near, ask.from, ask.to}
  BY <1>1 DEF Malformed
<1>5. ask.k \in Nat \ {0} /\ ask.mode \in {"lexical", "vector", "hybrid"}
  BY <1>3, <1>4 DEF Untold, ModeUnknown
<1>6. /\ ask.near \in Int \cup {Absent}
      /\ ask.from \in Int \cup {Absent} /\ ask.to \in Int \cup {Absent}
  BY <1>1, <1>3, <1>4
<1> QED
  BY <1>1, <1>2, <1>4, <1>5, <1>6

(* A chunk's note is one of the vault's, and there are finitely many.      *)
LEMMA ChunksOfNotes ==
  ASSUME NEW notes \in Seq(NoteRecord)
  PROVE  /\ ChunkIds(notes) \subseteq ChunkKey
         /\ IsFiniteSet(ChunkIds(notes))
         /\ \A c \in ChunkIds(notes) : \E i \in DOMAIN notes : c.note = notes[i].id
<1> DEFINE ids(i) == {[note |-> notes[i].id, seq |-> s] : s \in 0..notes[i].size - 1}
           F == [i \in DOMAIN notes |-> ids(i)]
           T == {ids(i) : i \in DOMAIN notes}
<1>1. /\ DOMAIN notes = 1..Len(notes) /\ Len(notes) \in Nat
      /\ \A i \in DOMAIN notes : notes[i].id \in Int /\ notes[i].size \in Nat
  <2>1. \A i \in DOMAIN notes : notes[i] \in NoteRecord
    OBVIOUS
  <2> QED
    BY <2>1 DEF NoteRecord
<1>2. ChunkIds(notes) = UNION T
  BY DEF ChunkIds
<1>3. ASSUME NEW i \in DOMAIN notes PROVE IsFiniteSet(ids(i))
  <2> DEFINE n == notes[i].size - 1
             a == notes[i].id
             g == [s \in 0..n |-> [note |-> a, seq |-> s]]
  <2>1. n \in Int
    BY <1>1
  <2>2. IsFiniteSet(0..n)
    <3>1. \A k \in Int : IsFiniteSet(0..k)
      BY FS_Interval
    <3> QED
      BY <2>1, <3>1
  <2>3. ids(i) = {g[s] : s \in 0..n}
    OBVIOUS
  <2>4. g \in Surjection(0..n, ids(i))
    BY <2>3 DEF Surjection
  <2> QED
    BY <2>2, <2>4, FS_Surjection
<1>4. \A c \in ChunkIds(notes) : \E i \in DOMAIN notes : c \in ids(i)
  BY <1>2
<1>5. ASSUME NEW i \in DOMAIN notes, NEW c \in ids(i) PROVE c \in ChunkKey /\ c.note = notes[i].id
  <2>1. notes[i].id \in Int /\ notes[i].size \in Nat
    BY <1>1
  <2>2. PICK s \in 0..notes[i].size - 1 : c = [note |-> notes[i].id, seq |-> s]
    OBVIOUS
  <2>3. s \in Nat
    BY <2>1
  <2> QED
    BY <2>1, <2>2, <2>3 DEF ChunkKey
<1>6. IsFiniteSet(T)
  <2> HIDE DEF ids
  <2>1. T = {F[i] : i \in DOMAIN notes}
    OBVIOUS
  <2>2. F \in Surjection(DOMAIN notes, T)
    BY <2>1 DEF Surjection
  <2>3. IsFiniteSet(DOMAIN notes)
    BY <1>1, FS_Interval
  <2> QED
    BY <2>2, <2>3, FS_Surjection
<1>7. \A X \in T : IsFiniteSet(X)
  BY <1>3
<1> HIDE DEF T, ids
<1>8. IsFiniteSet(ChunkIds(notes))
  BY <1>2, <1>6, <1>7, FS_UNION
<1> QED
  BY <1>4, <1>5, <1>8

(* The chunks that the filters let through are those of the notes that     *)
(* they mean.                                                              *)
LEMMA FiltersMean ==
  ASSUME RetrievalOK, Answered
  PROVE  /\ Passing = {c \in index.chunks : Meant(c.note)}
         /\ Passing \subseteq index.chunks /\ Passing \subseteq ChunkKey /\ IsFiniteSet(Passing)
<1> DEFINE ask == asked.ask
           notes == vault.notes
<1>1. PICK model \in IndexModels : index = Index(vault.notes, vault.events, model)
  BY DEF RetrievalOK, AnswerOK, IndexOK
<1>2. notes \in Seq(NoteRecord) /\ vault.events \subseteq EventRecord
  BY DEF RetrievalOK, VaultOK
<1>3. /\ ask.near \in Int \cup {Absent}
      /\ ask.from \in Int \cup {Absent} /\ ask.to \in Int \cup {Absent}
  BY AnsweredFacts
<1>4. index.chunks = ChunkIds(notes)
  BY <1>1 DEF Index
<1>5. ASSUME NEW h \in DOMAIN notes
      PROVE  (Allowed.filtered => notes[h].id \in Allowed.notes) <=> Meant(notes[h].id)
  <2> DEFINE id == notes[h].id
             near == ask.near \notin {Absent, id} => Linked(ask.near, id)
             dated == ask.from # Absent \/ ask.to # Absent
             inRange == \E t \in Dates(id) : /\ ask.from # Absent => ask.from <= t
                                             /\ ask.to # Absent => t <= ask.to
  <2>1. Meant(id) <=> near /\ (dated => inRange)
    BY DEF Meant
  <2>2. id \in InRange(index, ask.from, ask.to) <=> inRange
    <3>1. id \in InRange(index, ask.from, ask.to)
            <=> \E t \in Dates(id) : /\ ask.from # Absent => t >= ask.from
                                     /\ ask.to # Absent => t <= ask.to
      BY <1>1, <1>2, RowsDate
    <3> QED
      BY <3>1
  <2>3. ask.near # Absent => (id \in Neighbourhood(index, ask.near) <=> near)
    <3>1. id \in Neighbourhood(index, ask.near) <=> id = ask.near \/ Linked(ask.near, id)
      BY <1>1, <1>2, NeighboursLinked
    <3> QED
      BY <3>1
  <2>4. ask.near = Absent => near
    OBVIOUS
  <2> HIDE DEF near, inRange, id
  <2>5. CASE ask.near = Absent /\ ~dated
    BY <2>1, <2>4, <2>5 DEF Allowed, AllowedNotes, Unfiltered, id
  <2>6. CASE ask.near # Absent /\ ~dated
    <3>1. Allowed = Only(Neighbourhood(index, ask.near))
      BY <2>6 DEF Allowed, AllowedNotes
    <3>2. Allowed.filtered = TRUE /\ Allowed.notes = Neighbourhood(index, ask.near)
      BY <3>1 DEF Only
    <3> QED
      BY <2>1, <2>3, <2>6, <3>2 DEF id
  <2>7. CASE ask.near = Absent /\ dated
    <3>1. Allowed = Only(InRange(index, ask.from, ask.to))
      BY <2>7 DEF Allowed, AllowedNotes
    <3>2. Allowed.filtered = TRUE /\ Allowed.notes = InRange(index, ask.from, ask.to)
      BY <3>1 DEF Only
    <3> QED
      BY <2>1, <2>2, <2>4, <2>7, <3>2 DEF id
  <2>8. CASE ask.near # Absent /\ dated
    <3>1. Allowed = Only(Neighbourhood(index, ask.near) \cap InRange(index, ask.from, ask.to))
      BY <2>8 DEF Allowed, AllowedNotes
    <3>2. /\ Allowed.filtered = TRUE
          /\ Allowed.notes = Neighbourhood(index, ask.near) \cap InRange(index, ask.from, ask.to)
      BY <3>1 DEF Only
    <3> QED
      BY <2>1, <2>2, <2>3, <2>8, <3>2 DEF id
  <2> QED
    BY <2>5, <2>6, <2>7, <2>8
<1>6. \A c \in index.chunks : (Allowed.filtered => c.note \in Allowed.notes) <=> Meant(c.note)
  BY <1>2, <1>4, <1>5, ChunksOfNotes
<1>7. Passing = {c \in index.chunks : Meant(c.note)}
  BY <1>6 DEF Passing, Admitted
<1>8. index.chunks \subseteq ChunkKey /\ IsFiniteSet(index.chunks)
  BY <1>2, <1>4, ChunksOfNotes
<1>9. Passing \subseteq index.chunks
  BY DEF Passing, Admitted
<1> QED
  BY <1>7, <1>8, <1>9, FS_Subset

(* The order of the hybrid rows.                                           *)
Combined(lexical, vector, weight) ==
  [c \in Merged(vector, lexical) |->
     weight * Normalized(vector, c) * Spread(lexical)
       + (WholeWeight - weight) * Normalized(lexical, c) * Spread(vector)]
Hybrid(lexical, vector, k, weight) ==
  Ranked(Merged(vector, lexical), Combined(lexical, vector, weight), k)

(* The rows of a hybrid query are in that order.                           *)
LEMMA HybridIs ==
  ASSUME NEW ix, NEW bm25, NEW cosine, NEW k, NEW weight, NEW allowed
  PROVE  HybridRows(ix, bm25, cosine, k, weight, allowed) =
           Hybrid(LexicalRows(ix, bm25, Pool(k), allowed), VectorRows(ix, cosine, Pool(k), allowed),
                  k, weight)
BY DEF HybridRows, Hybrid, Combined

(* Nothing ranked is nothing shown.                                        *)
LEMMA NothingRanked ==
  ASSUME NEW score, NEW n \in Nat
  PROVE  Ranked({}, score, n) = <<>>
<1>1. Cardinality({}) = 0
  BY FS_EmptySet
<1>2. Smaller(n, Cardinality({})) = 0
  BY <1>1 DEF Smaller
<1>3. 1..Smaller(n, Cardinality({})) = {}
  BY <1>2
<1> QED
  BY <1>3 DEF Ranked

(* The pool is never less than the page.                                   *)
LEMMA PoolSuffices ==
  ASSUME NEW k \in Nat \ {0}
  PROVE  Pool(k) \in Nat /\ k <= Pool(k)
<1>1. PoolFactor \in Nat \ {0} /\ PoolFloor \in Nat
  BY PoolAssumption
<1>2. k * PoolFactor \in Nat
  BY <1>1
<1>3. k <= k * PoolFactor
  BY <1>1
<1> QED
  BY <1>1, <1>2, <1>3 DEF Pool, Larger

(***************************************************************************)
(* Filters act first.                                                      *)
(***************************************************************************)
LEMMA FiltersFirstHolds == RetrievalOK => FiltersFirst
<1> SUFFICES ASSUME RetrievalOK, Answered
             PROVE  reply.hits =
                      Rows([index EXCEPT !.chunks = {c \in index.chunks : Meant(c.note)}],
                           [asked.ask EXCEPT !.near = Absent, !.from = Absent, !.to = Absent],
                           asked.bm25, asked.cosine, Unfiltered)
  BY DEF FiltersFirst
<1> DEFINE ask == asked.ask
           ix == [index EXCEPT !.chunks = {c \in index.chunks : Meant(c.note)}]
           open == [asked.ask EXCEPT !.near = Absent, !.from = Absent, !.to = Absent]
<1>1. /\ ask.k \in Nat \ {0} /\ ask.mode \in {"lexical", "vector", "hybrid"}
      /\ reply.hits = Rows(index, ask, asked.bm25, asked.cosine, Allowed)
  BY AnsweredFacts
<1>2. Passing = {c \in index.chunks : Meant(c.note)}
  BY FiltersMean
<1>3. ix.chunks = Passing
  <2>1. PICK model \in IndexModels : index = Index(vault.notes, vault.events, model)
    BY DEF RetrievalOK, AnswerOK, IndexOK
  <2> DEFINE X == {c \in index.chunks : Meant(c.note)}
  <2> HIDE DEF X
  <2>2. [index EXCEPT !.chunks = X].chunks = X
    BY <2>1 DEF Index
  <2> QED
    BY <1>2, <2>2 DEF X
<1>4. open.k = ask.k /\ open.mode = ask.mode /\ open.weight = ask.weight
  <2>1. asked.ask \in QueryRequest
    BY DEF RetrievalOK, AnswerOK, Scored
  <2> QED
    BY <2>1 DEF QueryRequest
<1> HIDE DEF ix, open
<1>5. Admitted(ix, Unfiltered) = Passing
  BY <1>3 DEF Admitted, Unfiltered
<1>6. ASSUME NEW n
      PROVE  /\ LexicalRows(ix, asked.bm25, n, Unfiltered) = LexicalRows(index, asked.bm25, n, Allowed)
             /\ VectorRows(ix, asked.cosine, n, Unfiltered) = VectorRows(index, asked.cosine, n, Allowed)
  BY <1>5 DEF LexicalRows, VectorRows, Passing
<1>7. HybridRows(ix, asked.bm25, asked.cosine, ask.k, ask.weight, Unfiltered)
        = HybridRows(index, asked.bm25, asked.cosine, ask.k, ask.weight, Allowed)
  BY <1>6, HybridIs
<1>8. Unfiltered # Only({})
  <2>1. Unfiltered.filtered = FALSE /\ Only({}).filtered = TRUE
    BY DEF Unfiltered, Only
  <2> QED
    BY <2>1
<1> DEFINE free == Rows(ix, open, asked.bm25, asked.cosine, Unfiltered)
<1>9. /\ ask.mode = "lexical" => free = LexicalRows(ix, asked.bm25, ask.k, Unfiltered)
      /\ ask.mode = "vector" => free = VectorRows(ix, asked.cosine, ask.k, Unfiltered)
      /\ ask.mode = "hybrid" =>
           free = HybridRows(ix, asked.bm25, asked.cosine, ask.k, ask.weight, Unfiltered)
  BY <1>4, <1>8 DEF Rows
<1>10. CASE Allowed # Only({})
  <2>1. /\ ask.mode = "lexical" => reply.hits = LexicalRows(index, asked.bm25, ask.k, Allowed)
        /\ ask.mode = "vector" => reply.hits = VectorRows(index, asked.cosine, ask.k, Allowed)
        /\ ask.mode = "hybrid" =>
             reply.hits = HybridRows(index, asked.bm25, asked.cosine, ask.k, ask.weight, Allowed)
    BY <1>1, <1>10 DEF Rows
  <2> HIDE DEF free
  <2>2. reply.hits = free
    BY <1>1, <1>6, <1>7, <1>9, <2>1
  <2> QED
    BY <2>2 DEF free, ix, open
<1>11. CASE Allowed = Only({})
  <2>1. reply.hits = <<>>
    BY <1>1, <1>11 DEF Rows
  <2>2. Passing = {}
    <3>1. Allowed.filtered = TRUE /\ Allowed.notes = {}
      BY <1>11 DEF Only
    <3> QED
      BY <3>1 DEF Passing, Admitted
  <2>3. Pool(ask.k) \in Nat
    BY <1>1, PoolSuffices
  <2>4. \A n \in Nat : /\ LexicalRows(index, asked.bm25, n, Allowed) = <<>>
                       /\ VectorRows(index, asked.cosine, n, Allowed) = <<>>
    BY <2>2, NothingRanked DEF LexicalRows, VectorRows, Passing
  <2>5. HybridRows(index, asked.bm25, asked.cosine, ask.k, ask.weight, Allowed) = <<>>
    <3>1. Merged(<<>>, <<>>) = {}
      BY DEF Merged, IdsOf
    <3>2. Hybrid(<<>>, <<>>, ask.k, ask.weight) = <<>>
      BY <1>1, <3>1, NothingRanked DEF Hybrid
    <3> QED
      BY <2>3, <2>4, <3>2, HybridIs
  <2>6. ask.k \in Nat
    BY <1>1
  <2> HIDE DEF free
  <2>7. free = <<>>
    BY <1>1, <1>6, <1>7, <1>9, <2>4, <2>5, <2>6
  <2> QED
    BY <2>1, <2>7 DEF free, ix, open
<1> QED
  BY <1>10, <1>11

(***************************************************************************)
(* What a page shows.                                                      *)
(***************************************************************************)

(* Chunks the filters let through, with scores.                            *)
BothScored(A, bm25, cosine) ==
  /\ A \subseteq ChunkKey /\ IsFiniteSet(A)
  /\ \A c \in A : bm25[c] \in Nat /\ cosine[c] \in Int
Worded(A, bm25) == {c \in A : bm25[c] # 0}

(* Either way of scoring can rank what it has to.                          *)
LEMMA SubsetScorable ==
  ASSUME NEW A, NEW bm25, NEW cosine, BothScored(A, bm25, cosine)
  PROVE  Scorable(Worded(A, bm25), bm25) /\ Scorable(A, cosine) /\ Scorable(A, bm25)
<1>1. IsFiniteSet(A) /\ Worded(A, bm25) \in SUBSET A
  BY DEF BothScored, Worded
<1>2. IsFiniteSet(Worded(A, bm25))
  BY <1>1, FS_Subset
<1> QED
  BY <1>1, <1>2 DEF BothScored, Scorable, Worded

(* A product of what is larger is larger.                                  *)
LEMMA ScaleKeeps ==
  ASSUME NEW a \in Nat, NEW b \in Nat, NEW w \in Nat, NEW s \in Nat
  PROVE  /\ w * a * s \in Nat
         /\ a <= b => w * a * s <= w * b * s
         /\ a < b /\ w > 0 /\ s > 0 => w * a * s < w * b * s
<1>1. \A x, y, z \in Nat : x * z \in Nat /\ (x <= y => x * z <= y * z)
  OBVIOUS
<1>2. \A x, y, z \in Nat : x < y /\ z > 0 => x * z < y * z
  OBVIOUS
<1>3. w * a \in Nat /\ w * b \in Nat /\ w * a = a * w /\ w * b = b * w
  OBVIOUS
<1>4. a <= b => w * a <= w * b
  BY <1>1, <1>3
<1>5. a < b /\ w > 0 => w * a < w * b
  BY <1>2, <1>3
<1> QED
  BY <1>1, <1>2, <1>3, <1>4, <1>5

(* The two rankings that are merged, what they find, and its order.        *)
LEMMA HybridIsRanking ==
  ASSUME NEW A, NEW bm25, NEW cosine, BothScored(A, bm25, cosine),
         NEW k \in Nat \ {0}, NEW weight \in 0..WholeWeight
  PROVE  LET lexical == Ranked(Worded(A, bm25), bm25, Pool(k))
             vector == Ranked(A, cosine, Pool(k))
             found == Merged(vector, lexical)
             rows == Hybrid(lexical, vector, k, weight)
         IN /\ IsRanking(lexical, Worded(A, bm25), bm25)
            /\ IsRanking(vector, A, cosine)
            /\ found \subseteq A
            /\ \A c \in found : Combined(lexical, vector, weight)[c] \in Int
            /\ Scorable(found, Combined(lexical, vector, weight))
            /\ IsRanking(rows, found, Combined(lexical, vector, weight))
            /\ Len(rows) = Smaller(k, Cardinality(A))
<1> DEFINE lexical == Ranked(Worded(A, bm25), bm25, Pool(k))
           vector == Ranked(A, cosine, Pool(k))
           found == Merged(vector, lexical)
           combined == Combined(lexical, vector, weight)
           rows == Hybrid(lexical, vector, k, weight)
<1>1. Pool(k) \in Nat /\ k <= Pool(k)
  BY PoolSuffices
<1>2. Scorable(Worded(A, bm25), bm25) /\ Scorable(A, cosine) /\ Scorable(A, bm25)
  BY SubsetScorable
<1>3. IsRanking(lexical, Worded(A, bm25), bm25)
  BY <1>1, <1>2, RankedIsRanking
<1>4. IsRanking(vector, A, cosine) /\ Len(vector) = Smaller(Pool(k), Cardinality(A))
  BY <1>1, <1>2, RankedIsRanking
<1> HIDE DEF lexical, vector
<1>5. found \subseteq A /\ IdsOf(vector) \subseteq found /\ IdsOf(lexical) \subseteq Worded(A, bm25)
  BY <1>3, <1>4 DEF Merged, IsRanking, Worded
<1>6. ASSUME NEW c \in found PROVE combined[c] \in Int
  <2>1. Normalized(vector, c) \in Nat /\ Spread(vector) \in Nat
    BY <1>2, <1>4, <1>5, NormalizedOrder, SpreadIsPositive
  <2>2. Normalized(lexical, c) \in Nat
    <3>1. CASE c \in IdsOf(lexical)
      BY <1>2, <1>3, <1>5, <3>1, NormalizedOrder
    <3>2. CASE c \notin IdsOf(lexical)
      BY <3>2 DEF Normalized
    <3> QED
      BY <3>1, <3>2
  <2>3. Spread(lexical) \in Nat
    BY <1>2, <1>3, SpreadIsPositive
  <2>4. weight \in Nat /\ WholeWeight - weight \in Nat
    BY WeightAssumption
  <2> DEFINE x == weight * Normalized(vector, c) * Spread(lexical)
             y == (WholeWeight - weight) * Normalized(lexical, c) * Spread(vector)
  <2>5. x \in Nat /\ y \in Nat
    BY <2>1, <2>2, <2>3, <2>4, ScaleKeeps
  <2>6. combined[c] = x + y
    BY DEF Combined
  <2> QED
    BY <2>5, <2>6
<1>7. IsFiniteSet(found) /\ Scorable(found, combined)
  <2>1. found \in SUBSET A /\ IsFiniteSet(A) /\ A \subseteq ChunkKey
    BY <1>5 DEF BothScored
  <2>2. IsFiniteSet(found)
    BY <2>1, FS_Subset
  <2> QED
    BY <1>6, <2>1, <2>2 DEF Scorable
<1>8. IsRanking(rows, found, combined) /\ Len(rows) = Smaller(k, Cardinality(found))
  BY <1>7, RankedIsRanking DEF Hybrid
<1>9. Smaller(k, Cardinality(found)) = Smaller(k, Cardinality(A))
  <2>1. /\ IsFiniteSet(A) /\ Cardinality(A) \in Nat /\ Cardinality(found) \in Nat
        /\ Cardinality(found) <= Cardinality(A)
    BY <1>5, <1>7, FS_Subset, FS_CardinalityType DEF BothScored
  <2>2. IsFiniteSet(IdsOf(vector)) /\ Cardinality(IdsOf(vector)) = Smaller(Pool(k), Cardinality(A))
    BY <1>4 DEF IsRanking
  <2>3. Cardinality(IdsOf(vector)) <= Cardinality(found)
    BY <1>5, <1>7, FS_Subset
  <2> QED
    BY <1>1, <2>1, <2>2, <2>3 DEF Smaller
<1> QED
  BY <1>3, <1>4, <1>5, <1>6, <1>7, <1>8, <1>9 DEF lexical, vector

(* A chunk that both rankers put before another is before it in the hybrid *)
(* order, if the other was found.                                          *)
LEMMA BetterInBoth ==
  ASSUME NEW A, NEW bm25, NEW cosine, BothScored(A, bm25, cosine),
         NEW k \in Nat \ {0}, NEW weight \in 1..WholeWeight - 1,
         NEW lexical, lexical = Ranked(Worded(A, bm25), bm25, Pool(k)),
         NEW vector, vector = Ranked(A, cosine, Pool(k)),
         NEW c \in A, NEW d \in Merged(vector, lexical),
         bm25[c] > bm25[d], cosine[c] > cosine[d]
  PROVE  c \in Merged(vector, lexical) /\ Precedes(Combined(lexical, vector, weight), c, d)
<1> DEFINE found == Merged(vector, lexical)
           combined == Combined(lexical, vector, weight)
           N(rows, b) == Normalized(rows, b)
<1>1. weight \in 0..WholeWeight /\ weight \in Nat /\ WholeWeight - weight \in Nat
      /\ weight > 0 /\ WholeWeight - weight > 0
  BY WeightAssumption
<1>2. Scorable(Worded(A, bm25), bm25) /\ Scorable(A, cosine)
  BY SubsetScorable
<1>3. /\ IsRanking(lexical, Worded(A, bm25), bm25)
      /\ IsRanking(vector, A, cosine)
      /\ found \subseteq A
      /\ \A b \in found : combined[b] \in Int
  BY <1>1, HybridIsRanking
<1>4. d \in A /\ bm25[c] \in Nat /\ bm25[d] \in Nat /\ cosine[c] \in Int /\ cosine[d] \in Int
  BY <1>3 DEF BothScored
<1>5. c \in Worded(A, bm25) /\ Precedes(bm25, c, d) /\ Precedes(cosine, c, d)
  BY <1>4 DEF Worded, Precedes
<1>6. Spread(lexical) \in Nat /\ Spread(lexical) > 0 /\ Spread(vector) \in Nat /\ Spread(vector) > 0
  BY <1>2, <1>3, SpreadIsPositive
<1>7. N(lexical, c) \in Nat /\ N(vector, c) \in Nat /\ N(vector, d) \in Nat
  BY <1>2, <1>3, <1>4, <1>5, NormalizedOrder
<1>8. IF d \in IdsOf(vector)
      THEN c \in IdsOf(vector) /\ N(vector, d) < N(vector, c)
      ELSE N(vector, d) = 0 /\ N(vector, d) <= N(vector, c)
  <2>1. CASE d \in IdsOf(vector)
    <3>1. c \in IdsOf(vector)
      BY <1>3, <1>5, <2>1, ShownBefore
    <3>2. N(vector, d) < N(vector, c)
      BY <1>2, <1>3, <1>7, <2>1, <3>1, NormalizedOrder
    <3> QED
      BY <2>1, <3>1, <3>2
  <2>2. CASE d \notin IdsOf(vector)
    BY <1>7, <2>2 DEF Normalized
  <2> QED
    BY <2>1, <2>2
<1>9. /\ N(lexical, d) \in Nat
      /\ IF d \in IdsOf(lexical)
         THEN c \in IdsOf(lexical) /\ N(lexical, d) < N(lexical, c)
         ELSE N(lexical, d) = 0 /\ N(lexical, d) <= N(lexical, c)
  <2>1. CASE d \in IdsOf(lexical)
    <3>1. d \in Worded(A, bm25)
      BY <1>3, <2>1 DEF IsRanking
    <3>2. c \in IdsOf(lexical)
      BY <1>3, <1>5, <2>1, ShownBefore
    <3>3. N(lexical, d) \in Nat /\ N(lexical, d) < N(lexical, c)
      BY <1>2, <1>3, <1>7, <2>1, <3>1, <3>2, NormalizedOrder
    <3> QED
      BY <2>1, <3>2, <3>3
  <2>2. CASE d \notin IdsOf(lexical)
    BY <1>7, <2>2 DEF Normalized
  <2> QED
    BY <2>1, <2>2
<1>10. d \in IdsOf(vector) \/ d \in IdsOf(lexical)
  BY DEF Merged
<1>11. c \in found
  BY <1>8, <1>9, <1>10 DEF Merged
<1> DEFINE x(b) == weight * N(vector, b) * Spread(lexical)
           y(b) == (WholeWeight - weight) * N(lexical, b) * Spread(vector)
<1>12. \A b \in found : combined[b] = x(b) + y(b)
  BY DEF Combined
<1>13. /\ x(d) \in Nat /\ x(c) \in Nat /\ x(d) <= x(c)
       /\ d \in IdsOf(vector) => x(d) < x(c)
  <2> DEFINE a == N(vector, d)
             b == N(vector, c)
             s == Spread(lexical)
  <2>1. a \in Nat /\ b \in Nat /\ s \in Nat /\ s > 0 /\ a <= b /\ (d \in IdsOf(vector) => a < b)
    BY <1>6, <1>7, <1>8
  <2> HIDE DEF a, b, s
  <2>2. /\ weight * a * s \in Nat /\ weight * b * s \in Nat
        /\ weight * a * s <= weight * b * s
        /\ d \in IdsOf(vector) => weight * a * s < weight * b * s
    BY <1>1, <2>1, ScaleKeeps
  <2> QED
    BY <2>2 DEF a, b, s
<1>14. /\ y(d) \in Nat /\ y(c) \in Nat /\ y(d) <= y(c)
       /\ d \in IdsOf(lexical) => y(d) < y(c)
  <2> DEFINE a == N(lexical, d)
             b == N(lexical, c)
             s == Spread(vector)
             w == WholeWeight - weight
  <2>1. /\ w \in Nat /\ w > 0
        /\ a \in Nat /\ b \in Nat /\ s \in Nat /\ s > 0 /\ a <= b /\ (d \in IdsOf(lexical) => a < b)
    BY <1>1, <1>6, <1>7, <1>9
  <2> HIDE DEF a, b, s, w
  <2>2. /\ w * a * s \in Nat /\ w * b * s \in Nat
        /\ w * a * s <= w * b * s
        /\ d \in IdsOf(lexical) => w * a * s < w * b * s
    BY <2>1, ScaleKeeps
  <2> QED
    BY <2>2 DEF a, b, s, w
<1> HIDE DEF x, y, combined
<1>15. x(d) + y(d) < x(c) + y(c)
  BY <1>10, <1>13, <1>14
<1>16. combined[c] > combined[d]
  BY <1>11, <1>12, <1>13, <1>14, <1>15
<1> QED
  BY <1>11, <1>16 DEF Precedes, combined

(* Every page is a ranking of chunks the question may find, as many as     *)
(* there are, by a score that puts what beats another before it.           *)
LEMMA PageIsRanking ==
  ASSUME RetrievalOK, Answered
  PROVE  /\ Len(reply.hits) = Smaller(asked.ask.k, Cardinality(Candidates))
         /\ Allowed = Only({}) => reply.hits = <<>>
         /\ \E S, score :
              /\ S \subseteq Candidates
              /\ Scorable(S, score)
              /\ IsRanking(reply.hits, S, score)
              /\ \A c \in Candidates, d \in S : Beats(c, d) => c \in S /\ Precedes(score, c, d)
<1> DEFINE ask == asked.ask
           bm25 == asked.bm25
           cosine == asked.cosine
<1>1. /\ ask.k \in Nat \ {0} /\ ask.mode \in {"lexical", "vector", "hybrid"}
      /\ ask.weight \in 0..WholeWeight
      /\ bm25 \in [index.chunks -> Nat] /\ cosine \in [index.chunks -> Int]
      /\ reply.hits = Rows(index, ask, bm25, cosine, Allowed)
  BY AnsweredFacts
<1>2. /\ Passing = {c \in index.chunks : Meant(c.note)}
      /\ Passing \subseteq index.chunks /\ Passing \subseteq ChunkKey /\ IsFiniteSet(Passing)
  BY FiltersMean
<1>3. BothScored(Passing, bm25, cosine)
  BY <1>1, <1>2 DEF BothScored
<1>4. Candidates = {c \in Passing : ask.mode = "lexical" => bm25[c] # 0}
  BY <1>2 DEF Candidates
<1>5. Scorable(Worded(Passing, bm25), bm25) /\ Scorable(Passing, cosine)
  BY <1>3, SubsetScorable
<1> DEFINE Told(S, score) ==
             /\ S \subseteq Candidates
             /\ Scorable(S, score)
             /\ IsRanking(reply.hits, S, score)
             /\ Len(reply.hits) = Smaller(ask.k, Cardinality(Candidates))
             /\ \A c \in Candidates, d \in S : Beats(c, d) => c \in S /\ Precedes(score, c, d)
<1>6. CASE Allowed = Only({})
  <2>1. reply.hits = <<>>
    BY <1>1, <1>6 DEF Rows
  <2>2. Passing = {}
    <3>1. Allowed.filtered = TRUE /\ Allowed.notes = {}
      BY <1>6 DEF Only
    <3> QED
      BY <3>1 DEF Passing, Admitted
  <2>3. Candidates = {} /\ Cardinality({}) = 0 /\ IsFiniteSet({})
    BY <1>4, <2>2, FS_EmptySet
  <2>4. Smaller(ask.k, Cardinality(Candidates)) = 0
    BY <1>1, <2>3 DEF Smaller
  <2>5. IdsOf(<<>>) = {} /\ Len(<<>>) = 0 /\ DOMAIN <<>> = 1..0 /\ DOMAIN <<>> = {}
    BY DEF IdsOf
  <2>6. IsRanking(<<>>, {}, bm25)
    BY <2>3, <2>5 DEF IsRanking
  <2>7. Told({}, bm25)
    BY <2>1, <2>3, <2>4, <2>5, <2>6 DEF Scorable
  <2> HIDE DEF Told
  <2>8. \E S, score : Told(S, score)
    BY <2>7
  <2> QED
    BY <2>1, <2>8 DEF Told
<1>7. CASE Allowed # Only({}) /\ ask.mode = "lexical"
  <2>1. Candidates = Worded(Passing, bm25)
    BY <1>4, <1>7 DEF Worded
  <2>2. reply.hits = Ranked(Worded(Passing, bm25), bm25, ask.k)
    BY <1>1, <1>7 DEF Rows, LexicalRows, Passing, Worded
  <2>3. /\ IsRanking(reply.hits, Worded(Passing, bm25), bm25)
        /\ Len(reply.hits) = Smaller(ask.k, Cardinality(Candidates))
    <3>1. ask.k \in Nat
      BY <1>1
    <3> HIDE DEF ask, bm25, cosine
    <3>2. /\ IsRanking(Ranked(Worded(Passing, bm25), bm25, ask.k), Worded(Passing, bm25), bm25)
          /\ Len(Ranked(Worded(Passing, bm25), bm25, ask.k)) = Smaller(ask.k, Cardinality(Worded(Passing, bm25)))
      BY <1>5, <3>1, RankedIsRanking
    <3> QED
      BY <2>1, <2>2, <3>2
  <2>4. \A c, d \in Candidates : Beats(c, d) => Precedes(bm25, c, d)
    BY <1>7 DEF Beats, Precedes
  <2>5. Told(Candidates, bm25)
    BY <1>5, <2>1, <2>3, <2>4
  <2> HIDE DEF Told
  <2>6. \E S, score : Told(S, score)
    BY <2>5
  <2> QED
    BY <1>7, <2>6 DEF Told
<1>8. CASE Allowed # Only({}) /\ ask.mode = "vector"
  <2>1. Candidates = Passing
    BY <1>4, <1>8
  <2>2. reply.hits = Ranked(Passing, cosine, ask.k)
    BY <1>1, <1>8 DEF Rows, VectorRows, Passing
  <2>3. /\ IsRanking(reply.hits, Passing, cosine)
        /\ Len(reply.hits) = Smaller(ask.k, Cardinality(Candidates))
    <3>1. ask.k \in Nat
      BY <1>1
    <3> HIDE DEF ask, bm25, cosine
    <3>2. /\ IsRanking(Ranked(Passing, cosine, ask.k), Passing, cosine)
          /\ Len(Ranked(Passing, cosine, ask.k)) = Smaller(ask.k, Cardinality(Passing))
      BY <1>5, <3>1, RankedIsRanking
    <3> QED
      BY <2>1, <2>2, <3>2
  <2>4. \A c, d \in Candidates : Beats(c, d) => Precedes(cosine, c, d)
    BY <1>8 DEF Beats, Precedes
  <2>5. Told(Candidates, cosine)
    BY <1>5, <2>1, <2>3, <2>4
  <2> HIDE DEF Told
  <2>6. \E S, score : Told(S, score)
    BY <2>5
  <2> QED
    BY <1>8, <2>6 DEF Told
<1>9. CASE Allowed # Only({}) /\ ask.mode = "hybrid"
  <2> DEFINE lexical == Ranked(Worded(Passing, bm25), bm25, Pool(ask.k))
             vector == Ranked(Passing, cosine, Pool(ask.k))
             found == Merged(vector, lexical)
             combined == Combined(lexical, vector, ask.weight)
  <2>1. Candidates = Passing
    BY <1>4, <1>9
  <2>2. /\ LexicalRows(index, bm25, Pool(ask.k), Allowed) = lexical
        /\ VectorRows(index, cosine, Pool(ask.k), Allowed) = vector
    BY DEF LexicalRows, VectorRows, Passing, Worded
  <2>3. reply.hits = Hybrid(lexical, vector, ask.k, ask.weight)
    <3>1. reply.hits = HybridRows(index, bm25, cosine, ask.k, ask.weight, Allowed)
      BY <1>1, <1>9 DEF Rows
    <3> HIDE DEF lexical, vector
    <3> QED
      BY <2>2, <3>1, HybridIs
  <2>4. /\ found \subseteq Passing
        /\ Scorable(found, combined)
        /\ IsRanking(Hybrid(lexical, vector, ask.k, ask.weight), found, combined)
        /\ Len(Hybrid(lexical, vector, ask.k, ask.weight)) = Smaller(ask.k, Cardinality(Passing))
    BY <1>1, <1>3, HybridIsRanking
  <2>5. ASSUME NEW c \in Candidates, NEW d \in found, Beats(c, d)
        PROVE  c \in found /\ Precedes(combined, c, d)
    <3>1. bm25[c] > bm25[d] /\ cosine[c] > cosine[d] /\ ask.weight \in 1..WholeWeight - 1
      BY <1>9, <2>5 DEF Beats
    <3>2. c \in Passing
      BY <2>1
    <3> QED
      BY <1>1, <1>3, <3>1, <3>2, BetterInBoth
  <2> HIDE DEF combined, found, lexical, vector
  <2>6. Told(found, combined)
    BY <2>1, <2>3, <2>4, <2>5
  <2> HIDE DEF Told
  <2>7. \E S, score : Told(S, score)
    BY <2>6
  <2> QED
    BY <1>9, <2>7 DEF Told
<1> QED
  BY <1>1, <1>6, <1>7, <1>8, <1>9

(* A page is complete because it is a ranking of the candidates or, if     *)
(* hybrid, of what a pool as large leaves of them.                         *)
LEMMA PageCompleteHolds == RetrievalOK => PageComplete
<1> SUFFICES ASSUME RetrievalOK, Answered
             PROVE  /\ Len(reply.hits) = Smaller(asked.ask.k, Cardinality(Candidates))
                    /\ Cardinality(Found) = Len(reply.hits)
                    /\ \A i, j \in DOMAIN reply.hits : i < j =>
                         LET x == reply.hits[i]  y == reply.hits[j]
                         IN x.score > y.score \/ (x.score = y.score /\ EarlierId(x.id, y.id))
                    /\ Found # {} /\ asked.ask.mode # "lexical" => asked.ask.model = index.model
  BY DEF PageComplete
<1>1. /\ Len(reply.hits) = Smaller(asked.ask.k, Cardinality(Candidates))
      /\ Allowed = Only({}) => reply.hits = <<>>
  BY PageIsRanking
<1>2. PICK S, score : IsRanking(reply.hits, S, score)
  BY PageIsRanking
<1>3. Found = IdsOf(reply.hits)
  BY DEF Found, IdsOf
<1>4. Cardinality(Found) = Len(reply.hits)
  BY <1>2, <1>3 DEF IsRanking
<1>5. \A i, j \in DOMAIN reply.hits : i < j =>
        LET x == reply.hits[i]  y == reply.hits[j]
        IN x.score > y.score \/ (x.score = y.score /\ EarlierId(x.id, y.id))
  <2>1. \A i, j \in DOMAIN reply.hits : i < j => Precedes(score, reply.hits[i].id, reply.hits[j].id)
    BY <1>2 DEF IsRanking
  <2>2. \A i \in DOMAIN reply.hits : reply.hits[i].score = score[reply.hits[i].id]
    BY <1>2 DEF IsRanking
  <2> QED
    BY <2>1, <2>2 DEF Precedes
<1>6. Found # {} /\ asked.ask.mode # "lexical" => asked.ask.model = index.model
  <2>1. Allowed = Only({}) => Found = {}
    BY <1>1 DEF Found
  <2>2. ~Mismatched(asked.ask)
    BY AnsweredFacts
  <2> QED
    BY <2>1, <2>2 DEF Mismatched, Allowed
<1> QED
  BY <1>1, <1>4, <1>5, <1>6

(* Whatever beats a chunk on the page precedes it in both rankings, is in  *)
(* the pool with it, and stays ahead of it when the two are combined.      *)
LEMMA ParetoOrderHolds == RetrievalOK => ParetoOrder
<1> SUFFICES ASSUME RetrievalOK, Answered, NEW d \in Found, NEW c \in Candidates, Beats(c, d)
             PROVE  c \in Found /\ Rank(c) < Rank(d)
  BY DEF ParetoOrder
<1>1. PICK S, score :
        /\ IsRanking(reply.hits, S, score)
        /\ \A b \in Candidates, e \in S : Beats(b, e) => b \in S /\ Precedes(score, b, e)
  BY PageIsRanking
<1>2. Found = IdsOf(reply.hits)
  BY DEF Found, IdsOf
<1>3. c \in S /\ d \in S /\ Precedes(score, c, d)
  BY <1>1, <1>2 DEF IsRanking
<1>4. PICK i \in DOMAIN reply.hits : reply.hits[i].id = d
  BY DEF Found
<1>5. PICK h \in DOMAIN reply.hits : h < i /\ reply.hits[h].id = c
  BY <1>1, <1>3, <1>4 DEF IsRanking
<1>6. Rank(c) = h /\ Rank(d) = i
  <2>1. \A j, l \in DOMAIN reply.hits : reply.hits[j].id = reply.hits[l].id => j = l
    BY <1>1 DEF IsRanking
  <2> QED
    BY <1>4, <1>5, <2>1 DEF Rank
<1> QED
  BY <1>5, <1>6 DEF Found

(***************************************************************************)
(* Sums and concatenations.                                                *)
(***************************************************************************)

(* Going up from 0.                                                        *)
LEMMA Upward ==
  ASSUME NEW m \in Nat, NEW P, 0 \in P, \A n \in 1..m : n - 1 \in P => n \in P
  PROVE  \A n \in 0..m : n \in P
<1> DEFINE B == {n \in 0..m : n \notin P}
<1> SUFFICES ASSUME B # {} PROVE FALSE
  OBVIOUS
<1>1. B \subseteq Nat
  OBVIOUS
<1>2. PICK n \in B : \A k \in B : n <= k
  BY <1>1, LeastNumber
<1>3. n \in 1..m /\ n - 1 \in 0..m /\ ~(n <= n - 1)
  OBVIOUS
<1>4. n - 1 \in P
  BY <1>2, <1>3
<1> QED
  BY <1>3, <1>4

(* What is defined by going up exists.                                     *)
LEMMA Recursion ==
  ASSUME NEW A, NEW base \in A, NEW m \in Nat, NEW step \in [1..m -> [A -> A]]
  PROVE  \E f \in [0..m -> A] : f[0] = base /\ \A n \in 1..m : f[n] = step[n][f[n - 1]]
<1> DEFINE Solves(k, f) == f[0] = base /\ \A n \in 1..k : f[n] = step[n][f[n - 1]]
           P == {k \in 0..m : \E f \in [0..k -> A] : Solves(k, f)}
<1>1. 0 \in P
  <2> DEFINE f == [n \in 0..0 |-> base]
  <2>1. f \in [0..0 -> A] /\ f[0] = base
    OBVIOUS
  <2> HIDE DEF f
  <2>2. Solves(0, f)
    BY <2>1
  <2> HIDE DEF Solves
  <2> QED
    BY <2>1, <2>2
<1>2. ASSUME NEW k \in 1..m, k - 1 \in P PROVE k \in P
  <2>1. PICK f \in [0..k - 1 -> A] : Solves(k - 1, f)
    BY <1>2
  <2> DEFINE last == step[k][f[k - 1]]
             g == [n \in 0..k |-> IF n = k THEN last ELSE f[n]]
  <2>2. last \in A
    <3>1. k - 1 \in 0..k - 1
      BY <1>2
    <3>2. f[k - 1] \in A
      BY <3>1
    <3> QED
      BY <3>2
  <2>3. /\ g \in [0..k -> A]
        /\ g[k] = last
        /\ \A n \in 0..k - 1 : g[n] = f[n]
    <3>1. \A n \in 0..k : n # k => n \in 0..k - 1
      BY <1>2
    <3>2. k \in 0..k /\ \A n \in 0..k - 1 : n # k /\ n \in 0..k
      BY <1>2
    <3> HIDE DEF last
    <3> QED
      BY <2>2, <3>1, <3>2
  <2> HIDE DEF g
  <2>4. g[0] = base
    <3>1. 0 \in 0..k - 1
      BY <1>2
    <3> QED
      BY <2>1, <2>3, <3>1
  <2>5. ASSUME NEW n \in 1..k PROVE g[n] = step[n][g[n - 1]]
    <3>1. n - 1 \in 0..k - 1 /\ k - 1 \in 0..k - 1
      BY <1>2
    <3>2. CASE n = k
      BY <2>3, <3>1, <3>2
    <3>3. CASE n # k
      <4>1. n \in 1..k - 1 /\ n \in 0..k - 1
        BY <1>2, <3>3
      <4>2. f[n] = step[n][f[n - 1]]
        BY <2>1, <4>1
      <4> QED
        BY <2>3, <3>1, <4>1, <4>2
    <3> QED
      BY <3>2, <3>3
  <2>6. Solves(k, g)
    BY <2>4, <2>5
  <2> HIDE DEF Solves
  <2>7. k \in 0..m
    BY <1>2
  <2> QED
    BY <2>3, <2>6, <2>7
<1> HIDE DEF P
<1>3. m \in P
  <2>1. \A n \in 0..m : n \in P
    BY <1>1, <1>2, Upward
  <2> QED
    BY <2>1
<1> QED
  BY <1>3 DEF P

ChunkRecord == [title : BOOLEAN, pieces : Seq(Span)]

(* What has been packed, of any sequence of chunks.                        *)
UnpackedOf(cs) ==
  CHOOSE f : f = [n \in 0..Len(cs) |-> IF n = 0 THEN <<>> ELSE f[n - 1] \o cs[n].pieces]
Packed(cs) == UnpackedOf(cs)[Len(cs)]

(* It is what PackingKeeps speaks of ...                                   *)
LEMMA UnpackedIs == Unpacked[Len(chunks)] = Packed(chunks)
BY DEF Unpacked, Packed, UnpackedOf

(* ... and is, number by number, what its recursion says.                  *)
LEMMA UnpackedSolves ==
  ASSUME NEW cs \in Seq(ChunkRecord)
  PROVE  LET f == UnpackedOf(cs)
         IN /\ f \in [0..Len(cs) -> Seq(Span)]
            /\ f[0] = <<>>
            /\ \A n \in 1..Len(cs) : f[n] = f[n - 1] \o cs[n].pieces
<1> DEFINE m == Len(cs)
           step == [n \in 1..m |-> [x \in Seq(Span) |-> x \o cs[n].pieces]]
           Is(f) == f = [n \in 0..m |-> IF n = 0 THEN <<>> ELSE f[n - 1] \o cs[n].pieces]
<1>1. m \in Nat /\ \A n \in 1..m : cs[n].pieces \in Seq(Span)
  <2>1. \A n \in 1..m : cs[n] \in ChunkRecord
    OBVIOUS
  <2> QED
    BY <2>1 DEF ChunkRecord
<1>2. \A n \in 1..m : \A x \in Seq(Span) : step[n][x] = x \o cs[n].pieces
  OBVIOUS
<1>3. step \in [1..m -> [Seq(Span) -> Seq(Span)]]
  <2>1. \A n \in 1..m : \A x \in Seq(Span) : x \o cs[n].pieces \in Seq(Span)
    BY <1>1
  <2>2. \A n \in 1..m : [x \in Seq(Span) |-> x \o cs[n].pieces] \in [Seq(Span) -> Seq(Span)]
    BY <2>1
  <2> QED
    BY <2>2
<1>4. <<>> \in Seq(Span)
  OBVIOUS
<1> HIDE DEF step, m
<1>5. PICK f \in [0..m -> Seq(Span)] :
        f[0] = <<>> /\ \A n \in 1..m : f[n] = step[n][f[n - 1]]
  <2> DEFINE A == Seq(Span)
             b == <<>>
  <2>1. m \in Nat /\ b \in A /\ step \in [1..m -> [A -> A]]
    BY <1>1, <1>3, <1>4
  <2> HIDE DEF A, b
  <2>2. \E f \in [0..m -> A] : f[0] = b /\ \A n \in 1..m : f[n] = step[n][f[n - 1]]
    BY <2>1, Recursion
  <2> QED
    BY <2>2 DEF A, b
<1>6. \A n \in 1..m : n - 1 \in 0..m
  BY <1>1
<1>7. \A n \in 1..m : f[n] = f[n - 1] \o cs[n].pieces
  BY <1>2, <1>5, <1>6
<1>8. Is(f)
  <2>1. f = [n \in 0..m |-> f[n]]
    OBVIOUS
  <2>2. \A n \in 0..m : f[n] = IF n = 0 THEN <<>> ELSE f[n - 1] \o cs[n].pieces
    <3>1. \A n \in 0..m : n # 0 => n \in 1..m
      BY <1>1
    <3> QED
      BY <1>5, <1>7, <3>1
  <2> QED
    BY <2>1, <2>2, Zenon
<1>9. Is(UnpackedOf(cs))
  BY <1>8 DEF UnpackedOf, m
<1> DEFINE u == UnpackedOf(cs)
<1> HIDE DEF u
<1>10. u = [n \in 0..m |-> IF n = 0 THEN <<>> ELSE u[n - 1] \o cs[n].pieces]
  BY <1>9 DEF u
<1>11. u[0] = <<>> /\ \A n \in 1..m : u[n] = u[n - 1] \o cs[n].pieces
  <2>1. ASSUME NEW n \in 0..m PROVE u[n] = IF n = 0 THEN <<>> ELSE u[n - 1] \o cs[n].pieces
    BY <1>10, Zenon
  <2>2. 0 \in 0..m /\ \A n \in 1..m : n \in 0..m /\ n # 0
    BY <1>1
  <2> QED
    BY <2>1, <2>2
<1>12. \A n \in 0..m : u[n] \in Seq(Span)
  <2> DEFINE P == {n \in 0..m : u[n] \in Seq(Span)}
  <2>1. 0 \in P
    <3>1. 0 \in 0..m
      BY <1>1
    <3> QED
      BY <1>4, <1>11, <3>1
  <2>2. ASSUME NEW n \in 1..m, n - 1 \in P PROVE n \in P
    <3>1. n \in 0..m
      BY <1>1
    <3>2. u[n] = u[n - 1] \o cs[n].pieces
      BY <1>11
    <3>3. cs[n].pieces \in Seq(Span) /\ u[n - 1] \in Seq(Span)
      BY <1>1, <2>2
    <3>4. u[n] \in Seq(Span)
      BY <3>2, <3>3
    <3> QED
      BY <3>1, <3>4
  <2> HIDE DEF P
  <2>3. \A n \in 0..m : n \in P
    BY <1>1, <2>1, <2>2, Upward
  <2> QED
    BY <2>3 DEF P
<1>13. u \in [0..m -> Seq(Span)]
  <2>1. DOMAIN u = 0..m /\ u = [n \in 0..m |-> u[n]]
    BY <1>10, Zenon
  <2> QED
    BY <1>12, <2>1
<1> QED
  BY <1>11, <1>13 DEF u, m

(* No chunks hold no pieces.                                               *)
LEMMA PackedEmpty == Packed(<<>>) = <<>>
<1> DEFINE cs == <<>>
<1>1. cs \in Seq(ChunkRecord) /\ Len(cs) = 0
  OBVIOUS
<1> HIDE DEF cs
<1> QED
  BY <1>1, UnpackedSolves DEF Packed, cs

(* Chunks hold pieces.                                                     *)
LEMMA PackedType ==
  ASSUME NEW cs \in Seq(ChunkRecord)
  PROVE  Packed(cs) \in Seq(Span)
<1>1. UnpackedOf(cs) \in [0..Len(cs) -> Seq(Span)]
  BY UnpackedSolves
<1>2. Len(cs) \in 0..Len(cs)
  OBVIOUS
<1> QED
  BY <1>1, <1>2 DEF Packed

(* Chunks of the same pieces hold the same, whatever has the title.        *)
LEMMA PackedSame ==
  ASSUME NEW cs \in Seq(ChunkRecord), NEW ds \in Seq(ChunkRecord), NEW m \in 0..Len(cs),
         m <= Len(ds), \A n \in 1..m : cs[n].pieces = ds[n].pieces
  PROVE  UnpackedOf(cs)[m] = UnpackedOf(ds)[m]
<1> DEFINE f == UnpackedOf(cs)
           g == UnpackedOf(ds)
           P == {n \in 0..m : f[n] = g[n]}
<1>1. /\ f[0] = <<>> /\ \A n \in 1..Len(cs) : f[n] = f[n - 1] \o cs[n].pieces
      /\ g[0] = <<>> /\ \A n \in 1..Len(ds) : g[n] = g[n - 1] \o ds[n].pieces
  BY UnpackedSolves
<1> HIDE DEF f, g
<1>2. m \in Nat /\ m <= Len(cs)
  OBVIOUS
<1>3. 0 \in P
  BY <1>1, <1>2
<1>4. ASSUME NEW n \in 1..m, n - 1 \in P PROVE n \in P
  <2>1. n \in 0..m /\ n \in 1..Len(cs) /\ n \in 1..Len(ds)
    BY <1>2
  <2>2. f[n] = f[n - 1] \o cs[n].pieces /\ g[n] = g[n - 1] \o ds[n].pieces
    BY <1>1, <2>1
  <2>3. f[n - 1] = g[n - 1] /\ cs[n].pieces = ds[n].pieces
    BY <1>4
  <2> QED
    BY <2>1, <2>2, <2>3
<1> HIDE DEF P
<1>5. \A n \in 0..m : n \in P
  BY <1>2, <1>3, <1>4, Upward
<1>6. m \in P
  BY <1>2, <1>5
<1> QED
  BY <1>6 DEF P, f, g

(* One more chunk holds its pieces in addition.                            *)
LEMMA PackedAppend ==
  ASSUME NEW cs \in Seq(ChunkRecord), NEW c \in ChunkRecord
  PROVE  Packed(Append(cs, c)) = Packed(cs) \o c.pieces
<1> DEFINE ds == Append(cs, c)
           m == Len(cs)
<1>1. /\ ds \in Seq(ChunkRecord) /\ m \in Nat /\ Len(ds) = m + 1 /\ ds[m + 1] = c
      /\ \A n \in 1..m : cs[n] = ds[n]
  OBVIOUS
<1> HIDE DEF ds
<1>2. UnpackedOf(ds)[m + 1] = UnpackedOf(ds)[m] \o c.pieces
  <2>1. \A n \in 1..Len(ds) : UnpackedOf(ds)[n] = UnpackedOf(ds)[n - 1] \o ds[n].pieces
    BY <1>1, UnpackedSolves
  <2>2. m + 1 \in 1..Len(ds) /\ (m + 1) - 1 = m
    BY <1>1
  <2> QED
    BY <1>1, <2>1, <2>2
<1>3. UnpackedOf(cs)[m] = UnpackedOf(ds)[m]
  <2>1. m \in 0..Len(cs) /\ m <= Len(ds) /\ \A n \in 1..m : cs[n].pieces = ds[n].pieces
    BY <1>1
  <2> QED
    BY <1>1, <2>1, PackedSame
<1> QED
  BY <1>1, <1>2, <1>3 DEF Packed, ds

(* The size of pieces.                                                     *)
SumOf(ps) ==
  CHOOSE f : f = [n \in 0..Len(ps) |-> IF n = 0 THEN 0 ELSE f[n - 1] + Size(ps[n])]

(* It is, number by number, what its recursion says.                       *)
LEMMA SumSolves ==
  ASSUME NEW ps \in Seq(Span)
  PROVE  LET f == SumOf(ps)
         IN /\ f \in [0..Len(ps) -> Int]
            /\ f[0] = 0
            /\ \A n \in 1..Len(ps) : f[n] = f[n - 1] + Size(ps[n])
<1> DEFINE m == Len(ps)
           step == [n \in 1..m |-> [x \in Int |-> x + Size(ps[n])]]
           Is(f) == f = [n \in 0..m |-> IF n = 0 THEN 0 ELSE f[n - 1] + Size(ps[n])]
<1>1. m \in Nat /\ \A n \in 1..m : Size(ps[n]) \in Int
  <2>1. \A n \in 1..m : ps[n] \in Span
    OBVIOUS
  <2> QED
    BY <2>1 DEF Span, Size
<1>2. \A n \in 1..m : \A x \in Int : step[n][x] = x + Size(ps[n])
  OBVIOUS
<1>3. step \in [1..m -> [Int -> Int]]
  <2>1. \A n \in 1..m : \A x \in Int : x + Size(ps[n]) \in Int
    BY <1>1
  <2>2. \A n \in 1..m : [x \in Int |-> x + Size(ps[n])] \in [Int -> Int]
    BY <2>1
  <2> QED
    BY <2>2
<1>4. 0 \in Int
  OBVIOUS
<1> HIDE DEF step, m
<1>5. PICK f \in [0..m -> Int] :
        f[0] = 0 /\ \A n \in 1..m : f[n] = step[n][f[n - 1]]
  <2> DEFINE A == Int
             b == 0
  <2>1. m \in Nat /\ b \in A /\ step \in [1..m -> [A -> A]]
    BY <1>1, <1>3, <1>4
  <2> HIDE DEF A, b
  <2>2. \E f \in [0..m -> A] : f[0] = b /\ \A n \in 1..m : f[n] = step[n][f[n - 1]]
    BY <2>1, Recursion
  <2> QED
    BY <2>2 DEF A, b
<1>6. \A n \in 1..m : n - 1 \in 0..m
  BY <1>1
<1>7. \A n \in 1..m : f[n] = f[n - 1] + Size(ps[n])
  BY <1>2, <1>5, <1>6
<1>8. Is(f)
  <2>1. f = [n \in 0..m |-> f[n]]
    OBVIOUS
  <2>2. \A n \in 0..m : f[n] = IF n = 0 THEN 0 ELSE f[n - 1] + Size(ps[n])
    <3>1. \A n \in 0..m : n # 0 => n \in 1..m
      BY <1>1
    <3> QED
      BY <1>5, <1>7, <3>1
  <2> QED
    BY <2>1, <2>2, Zenon
<1>9. Is(SumOf(ps))
  BY <1>8 DEF SumOf, m
<1> DEFINE u == SumOf(ps)
<1> HIDE DEF u
<1>10. u = [n \in 0..m |-> IF n = 0 THEN 0 ELSE u[n - 1] + Size(ps[n])]
  BY <1>9 DEF u
<1>11. u[0] = 0 /\ \A n \in 1..m : u[n] = u[n - 1] + Size(ps[n])
  <2>1. ASSUME NEW n \in 0..m PROVE u[n] = IF n = 0 THEN 0 ELSE u[n - 1] + Size(ps[n])
    BY <1>10, Zenon
  <2>2. 0 \in 0..m /\ \A n \in 1..m : n \in 0..m /\ n # 0
    BY <1>1
  <2> QED
    BY <2>1, <2>2
<1>12. \A n \in 0..m : u[n] \in Int
  <2> DEFINE P == {n \in 0..m : u[n] \in Int}
  <2>1. 0 \in P
    <3>1. 0 \in 0..m
      BY <1>1
    <3> QED
      BY <1>4, <1>11, <3>1
  <2>2. ASSUME NEW n \in 1..m, n - 1 \in P PROVE n \in P
    <3>1. n \in 0..m
      BY <1>1
    <3>2. u[n] = u[n - 1] + Size(ps[n])
      BY <1>11
    <3>3. Size(ps[n]) \in Int /\ u[n - 1] \in Int
      BY <1>1, <2>2
    <3>4. u[n] \in Int
      BY <3>2, <3>3
    <3> QED
      BY <3>1, <3>4
  <2> HIDE DEF P
  <2>3. \A n \in 0..m : n \in P
    BY <1>1, <2>1, <2>2, Upward
  <2> QED
    BY <2>3 DEF P
<1>13. u \in [0..m -> Int]
  <2>1. DOMAIN u = 0..m /\ u = [n \in 0..m |-> u[n]]
    BY <1>10, Zenon
  <2> QED
    BY <1>12, <2>1
<1> QED
  BY <1>11, <1>13 DEF u, m

(* Total is the last of these sums.                                        *)
LEMMA TotalIs == \A ps : Total(ps) = SumOf(ps)[Len(ps)]
BY DEF Total, SumOf

(* A total is a number.                                                    *)
LEMMA TotalType ==
  ASSUME NEW ps \in Seq(Span)
  PROVE  Total(ps) \in Int
<1>1. SumOf(ps) \in [0..Len(ps) -> Int]
  BY SumSolves
<1>2. Len(ps) \in 0..Len(ps)
  OBVIOUS
<1> QED
  BY <1>1, <1>2, TotalIs

(* Nothing has no size.                                                    *)
LEMMA TotalEmpty == Total(<<>>) = 0
<1> DEFINE ps == <<>>
<1>1. ps \in Seq(Span) /\ Len(ps) = 0
  OBVIOUS
<1> HIDE DEF ps
<1>2. SumOf(ps)[0] = 0
  BY <1>1, SumSolves
<1> QED
  BY <1>1, <1>2, TotalIs DEF ps

(* One more piece adds its size.                                           *)
LEMMA TotalAppend ==
  ASSUME NEW ps \in Seq(Span), NEW s \in Span
  PROVE  Total(Append(ps, s)) = Total(ps) + Size(s)
<1> DEFINE qs == Append(ps, s)
           m == Len(ps)
           f == SumOf(ps)
           g == SumOf(qs)
           P == {n \in 0..m : f[n] = g[n]}
<1>1. /\ qs \in Seq(Span) /\ m \in Nat /\ Len(qs) = m + 1 /\ qs[m + 1] = s
      /\ \A n \in 1..m : ps[n] = qs[n]
  OBVIOUS
<1> HIDE DEF qs
<1>2. /\ f[0] = 0 /\ \A n \in 1..m : f[n] = f[n - 1] + Size(ps[n])
      /\ g[0] = 0 /\ \A n \in 1..m + 1 : g[n] = g[n - 1] + Size(qs[n])
  BY <1>1, SumSolves
<1> HIDE DEF f, g, m
<1>3. 0 \in P
  BY <1>1, <1>2
<1>4. ASSUME NEW n \in 1..m, n - 1 \in P PROVE n \in P
  <2>1. n \in 0..m /\ n \in 1..m + 1
    BY <1>1
  <2>2. f[n] = f[n - 1] + Size(ps[n]) /\ g[n] = g[n - 1] + Size(qs[n])
    BY <1>2, <2>1
  <2>3. f[n - 1] = g[n - 1] /\ ps[n] = qs[n]
    BY <1>1, <1>4
  <2> QED
    BY <2>1, <2>2, <2>3
<1> HIDE DEF P
<1>5. m \in P
  <2>1. \A n \in 0..m : n \in P
    BY <1>1, <1>3, <1>4, Upward
  <2> QED
    BY <1>1, <2>1
<1>6. f[m] = g[m]
  BY <1>5 DEF P
<1>7. g[m + 1] = g[m] + Size(s)
  <2>1. m + 1 \in 1..m + 1 /\ (m + 1) - 1 = m
    BY <1>1
  <2> QED
    BY <1>1, <1>2, <2>1
<1>8. Total(ps) = f[m] /\ Total(qs) = g[m + 1]
  BY <1>1, TotalIs DEF f, g, m
<1> QED
  BY <1>6, <1>7, <1>8 DEF qs

(* One piece has its own.                                                  *)
LEMMA TotalOfOne ==
  ASSUME NEW s \in Span
  PROVE  Total(<<s>>) = Size(s)
<1> DEFINE ps == <<>>
<1>1. ps \in Seq(Span) /\ <<s>> = Append(ps, s) /\ Size(s) \in Int
  BY DEF Span, Size
<1>2. Total(ps) = 0
  BY TotalEmpty
<1> HIDE DEF ps
<1>3. Total(<<s>>) = Total(ps) + Size(s)
  BY <1>1, TotalAppend
<1> QED
  BY <1>1, <1>2, <1>3

(***************************************************************************)
(* Cutting.                                                                *)
(***************************************************************************)

(* Chunking's least of a set of numbers, and the greatest of a bounded     *)
(* one.                                                                    *)
LEMMA LeastOf ==
  ASSUME NEW S \in SUBSET Nat, S # {}
  PROVE  Least(S) \in S /\ \A p \in S : Least(S) <= p
BY LeastNumber DEF Least

LEMMA GreatestOf ==
  ASSUME NEW n \in Nat, NEW S \in SUBSET (0..n), S # {}
  PROVE  Greatest(S) \in S /\ \A p \in S : p <= Greatest(S)
<1> DEFINE T == {k \in 0..n : n - k \in S}
<1>1. T \subseteq Nat /\ T # {}
  <2>1. PICK p \in S : TRUE
    OBVIOUS
  <2>2. p \in 0..n /\ n - p \in 0..n /\ n - (n - p) = p
    BY <2>1
  <2> QED
    BY <2>2
<1>2. PICK k \in T : \A j \in T : k <= j
  BY <1>1, LeastNumber
<1>3. n - k \in S /\ k \in 0..n
  BY <1>2
<1>4. ASSUME NEW p \in S PROVE p <= n - k
  <2>1. p \in 0..n /\ n - p \in 0..n /\ n - (n - p) = p
    OBVIOUS
  <2>2. n - p \in T
    BY <2>1
  <2>3. k <= n - p
    BY <1>2, <2>2
  <2> QED
    BY <1>3, <2>1, <2>3
<1>5. \E p \in S : \A q \in S : q <= p
  BY <1>3, <1>4
<1> QED
  BY <1>5 DEF Greatest

(* What strip() leaves begins and ends with ink, and what it takes away    *)
(* is blank.                                                               *)
LEMMA TrimmedIs ==
  ASSUME NEW from \in Nat, NEW to \in Nat
  PROVE  LET t == Trimmed(from, to)
         IN IF \E p \in from..to : Ink(p)
            THEN /\ t \in Span
                 /\ from <= t.from /\ t.from <= t.to /\ t.to <= to
                 /\ Ink(t.from) /\ Ink(t.to)
                 /\ \A p \in from..to : Ink(p) => p \in t.from..t.to
            ELSE t = NoSpan
<1> DEFINE inked == {p \in from..to : Ink(p)}
           t == Trimmed(from, to)
<1>1. t = IF inked = {} THEN NoSpan ELSE [from |-> Least(inked), to |-> Greatest(inked)]
  BY DEF Trimmed
<1>2. CASE inked = {}
  BY <1>1, <1>2
<1>3. CASE inked # {}
  <2>1. inked \in SUBSET Nat /\ inked \in SUBSET (0..to)
    OBVIOUS
  <2>2. /\ Least(inked) \in inked /\ \A p \in inked : Least(inked) <= p
        /\ Greatest(inked) \in inked /\ \A p \in inked : p <= Greatest(inked)
    BY <1>3, <2>1, LeastOf, GreatestOf
  <2>3. t.from = Least(inked) /\ t.to = Greatest(inked) /\ t = [from |-> t.from, to |-> t.to]
    BY <1>1, <1>3
  <2> HIDE DEF t
  <2>4. /\ t.from \in Nat /\ t.to \in Nat
        /\ from <= t.from /\ t.from <= t.to /\ t.to <= to
        /\ Ink(t.from) /\ Ink(t.to)
        /\ \A p \in from..to : Ink(p) => p \in t.from..t.to
    BY <2>2, <2>3
  <2>5. t \in Span
    BY <2>3, <2>4 DEF Span
  <2>6. \E p \in from..to : Ink(p)
    BY <1>3
  <2> QED
    BY <2>4, <2>5, <2>6 DEF t
<1> QED
  BY <1>2, <1>3

(* Where a cut before S ends: nothing of S is passed.                      *)
LEMMA BeforeIs ==
  ASSUME NEW lo \in Nat, NEW end \in Nat, NEW S, lo <= end, S \subseteq lo + 1 .. end
  PROVE  /\ Before(S, end) \in lo..end
         /\ \A p \in S : p > Before(S, end)
         /\ Before(S, end) # end => Before(S, end) + 1 \in S
<1>1. CASE S = {}
  BY <1>1 DEF Before
<1>2. CASE S # {}
  <2>1. S \in SUBSET Nat
    OBVIOUS
  <2>2. Least(S) \in S /\ \A p \in S : Least(S) <= p
    BY <1>2, <2>1, LeastOf
  <2> DEFINE first == Least(S)
             b == Before(S, end)
  <2>3. b = first - 1
    BY <1>2 DEF Before
  <2>4. first \in S /\ first \in lo + 1 .. end /\ \A p \in S : first <= p /\ p \in lo + 1 .. end
    BY <2>2
  <2> HIDE DEF first, b
  <2>5. b \in lo..end /\ (\A p \in S : p > b) /\ b + 1 \in S
    BY <2>3, <2>4
  <2> QED
    BY <2>5 DEF b
<1> QED
  BY <1>1, <1>2

(* The section at hand begins with its heading, if it has one, and has     *)
(* been stripped.                                                          *)
SectionOK ==
  /\ section.from \in 1..section.to /\ section.to <= Len(body)
  /\ Ink(section.to)
  /\ \A p \in section.from + 1 .. section.to : ~Heading(p)

(* Where the algorithm is in it.                                           *)
Cutting ==
  /\ pc = "section" => SectionOK /\ at = section.from - 1
  /\ pc = "paragraphs" => SectionOK /\ at \in section.from .. section.to
  /\ pc = "paragraph" =>
       SectionOK /\ at >= section.from - 1 /\ paragraph.to \in at + 1 .. section.to

CutTypeOK ==
  /\ body \in Seq(Char)
  /\ pc \in Places
  /\ at \in 0..Len(body)
  /\ section \in Span
  /\ paragraph \in Span
  /\ pieces \in Seq(Span)

PiecesFit == \A i \in DOMAIN pieces : Size(pieces[i]) <= Target

CutOK == CutTypeOK /\ PiecesCover /\ HeadingsLead /\ PiecesFit /\ Cutting

(* Passing over a blank leaves the pieces as they are ...                  *)
LEMMA Skipped ==
  ASSUME CutTypeOK, PiecesCover, HeadingsLead, PiecesFit, body' = body, pieces' = pieces,
         at' \in at..Len(body), \A p \in at + 1 .. at' : ~Ink(p)
  PROVE  PiecesCover' /\ HeadingsLead' /\ PiecesFit'
<1>1. at \in Nat /\ at' \in Nat
  BY DEF CutTypeOK
<1>2. \A p : (Ink(p)' <=> Ink(p)) /\ (Heading(p)' <=> Heading(p))
  BY DEF Ink, Heading
<1>3. PiecesCover'
  <2>1. \A i \in DOMAIN pieces : Size(pieces[i]) > 0 /\ Within(pieces[i]) \subseteq 1..at'
    <3>1. 1..at \subseteq 1..at'
      BY <1>1
    <3> QED
      BY <3>1 DEF PiecesCover
  <2>2. ASSUME NEW p \in 1..at', Ink(p) PROVE \E i \in DOMAIN pieces : p \in Within(pieces[i])
    <3>1. p \in 1..at
      BY <1>1, <2>2
    <3> QED
      BY <2>2, <3>1 DEF PiecesCover
  <2>3. \A i, j \in DOMAIN pieces : i < j => pieces[i].to < pieces[j].from
    BY DEF PiecesCover
  <2>4. \A s : Size(s)' = Size(s) /\ Within(s)' = Within(s)
    BY DEF Size, Within
  <2> QED
    BY <1>2, <2>1, <2>2, <2>3, <2>4 DEF PiecesCover
<1>4. HeadingsLead'
  BY <1>2 DEF HeadingsLead, Within
<1> QED
  BY <1>3, <1>4 DEF PiecesFit, Size

(* ... and so does adding what follows as one more.                        *)
LEMMA Kept ==
  ASSUME CutTypeOK, PiecesCover, HeadingsLead, PiecesFit, NEW s \in Span,
         body' = body, pieces' = Append(pieces, s), at' = s.to,
         s.from = at + 1, s.to \in at + 1 .. Len(body), Size(s) <= Target,
         \A p \in s.from + 1 .. s.to : ~Heading(p)
  PROVE  PiecesCover' /\ HeadingsLead' /\ PiecesFit'
<1> DEFINE n == Len(pieces)
<1>1. at \in Nat /\ at' \in Nat /\ at < at' /\ pieces \in Seq(Span)
  BY DEF CutTypeOK
<1>2. \A p : (Ink(p)' <=> Ink(p)) /\ (Heading(p)' <=> Heading(p))
  BY DEF Ink, Heading
<1>3. /\ n \in Nat /\ DOMAIN pieces = 1..n /\ DOMAIN pieces' = 1..n + 1
      /\ pieces'[n + 1] = s /\ \A i \in 1..n : pieces'[i] = pieces[i] /\ pieces[i] \in Span
  BY <1>1
<1>4. \A i \in 1..n + 1 : i \in 1..n \/ i = n + 1
  BY <1>3
<1> HIDE DEF n
<1>5. \A i \in 1..n : /\ Size(pieces[i]) > 0 /\ Within(pieces[i]) \subseteq 1..at
                      /\ Size(pieces[i]) <= Target
                      /\ \A p \in Within(pieces[i]) : Heading(p) => p = pieces[i].from
  BY <1>3 DEF PiecesCover, HeadingsLead, PiecesFit
<1>6. /\ Size(s) > 0 /\ Within(s) \subseteq 1..at'
      /\ \A p \in Within(s) : p = s.from \/ p \in s.from + 1 .. s.to
  BY <1>1 DEF Size, Within, Span
<1>7. PiecesCover'
  <2>1. \A i \in 1..n + 1 : Size(pieces'[i]) > 0 /\ Within(pieces'[i]) \subseteq 1..at'
    <3>1. 1..at \subseteq 1..at'
      BY <1>1
    <3> QED
      BY <1>3, <1>4, <1>5, <1>6, <3>1
  <2>2. ASSUME NEW i \in 1..n + 1, NEW j \in 1..n + 1, i < j
        PROVE  pieces'[i].to < pieces'[j].from
    <3>1. i \in 1..n
      BY <1>3, <2>2
    <3>2. CASE j \in 1..n
      BY <1>3, <2>2, <3>1, <3>2 DEF PiecesCover
    <3>3. CASE j = n + 1
      <4>1. pieces[i] \in Span /\ Size(pieces[i]) > 0 /\ Within(pieces[i]) \subseteq 1..at
        BY <1>3, <1>5, <3>1
      <4>2. pieces[i].to \in Within(pieces[i])
        BY <4>1 DEF Span, Size, Within
      <4>3. pieces[i].to <= at
        BY <4>1, <4>2
      <4> QED
        BY <1>1, <1>3, <3>1, <3>3, <4>1, <4>3 DEF Span
    <3> QED
      BY <1>4, <3>2, <3>3
  <2>3. ASSUME NEW p \in 1..at', Ink(p) PROVE \E i \in 1..n + 1 : p \in Within(pieces'[i])
    <3>1. CASE p \in 1..at
      <4>1. PICK i \in 1..n : p \in Within(pieces[i])
        BY <1>3, <2>3, <3>1 DEF PiecesCover
      <4> QED
        BY <1>3, <4>1
    <3>2. CASE p \notin 1..at
      <4>1. p \in Within(s)
        BY <1>1, <3>2 DEF Within
      <4>2. n + 1 \in 1..n + 1
        BY <1>3
      <4> QED
        BY <1>3, <4>1, <4>2
    <3> QED
      BY <3>1, <3>2
  <2>4. \A x : Size(x)' = Size(x) /\ Within(x)' = Within(x)
    BY DEF Size, Within
  <2> QED
    BY <1>2, <1>3, <2>1, <2>2, <2>3, <2>4 DEF PiecesCover
<1>8. \A i \in 1..n + 1 : \A p \in Within(pieces'[i]) : Heading(p) => p = pieces'[i].from
  BY <1>3, <1>4, <1>5, <1>6
<1>9. HeadingsLead'
  BY <1>2, <1>3, <1>8 DEF HeadingsLead, Within
<1>10. PiecesFit'
  <2>1. \A i \in 1..n + 1 : Size(pieces'[i]) <= Target
    BY <1>3, <1>4, <1>5
  <2> QED
    BY <1>3, <2>1 DEF PiecesFit, Size
<1> QED
  BY <1>7, <1>9, <1>10

(* A section that is not touched stays well cut.                           *)
LEMMA SectionStays ==
  ASSUME SectionOK, body' = body, section' = section
  PROVE  SectionOK'
BY DEF SectionOK, Ink, Heading

(* A section runs to the next heading ...                                  *)
LEMMA TakeSectionKeeps ==
  ASSUME CutOK, TakeSection
  PROVE  CutOK'
<1> DEFINE end == SectionEnd
           S == {p \in Position : p > at + 1 /\ Heading(p)}
           t == Trimmed(at + 1, end)
<1>1. /\ pc = "sections" /\ at < Len(body) /\ section' = t
      /\ at' = IF t = NoSpan THEN end ELSE t.from - 1
      /\ pc' = IF t = NoSpan THEN "sections" ELSE "section"
      /\ body' = body /\ paragraph' = paragraph /\ pieces' = pieces
  BY DEF TakeSection, input
<1>2. at \in Nat /\ Len(body) \in Nat /\ CutTypeOK
  BY DEF CutOK, CutTypeOK
<1>3. end \in at + 1 .. Len(body) /\ \A p \in S : p > end
  <2>1. S \subseteq (at + 1) + 1 .. Len(body)
    BY <1>2 DEF Position
  <2>2. at + 1 \in Nat /\ at + 1 <= Len(body)
    BY <1>1, <1>2
  <2> HIDE DEF S
  <2>3. Before(S, Len(body)) \in at + 1 .. Len(body) /\ \A p \in S : p > Before(S, Len(body))
    BY <1>2, <2>1, <2>2, BeforeIs
  <2> QED
    BY <2>3 DEF SectionEnd, S
<1> HIDE DEF end
<1>4. IF \E p \in at + 1 .. end : Ink(p)
      THEN /\ t \in Span
           /\ at + 1 <= t.from /\ t.from <= t.to /\ t.to <= end
           /\ Ink(t.from) /\ Ink(t.to)
           /\ \A p \in at + 1 .. end : Ink(p) => p \in t.from..t.to
      ELSE t = NoSpan
  <2>1. at + 1 \in Nat /\ end \in Nat
    BY <1>2, <1>3
  <2> QED
    BY <2>1, TrimmedIs
<1> HIDE DEF t
<1>5. CASE \E p \in at + 1 .. end : Ink(p)
  <2>1. /\ t \in Span
        /\ at + 1 <= t.from /\ t.from <= t.to /\ t.to <= end
        /\ Ink(t.to)
        /\ \A p \in at + 1 .. end : Ink(p) => p \in t.from..t.to
        /\ t.from \in Nat /\ t.to \in Nat
    BY <1>4, <1>5 DEF Span
  <2>2. t # NoSpan
    BY <2>1 DEF NoSpan
  <2>3. at' = t.from - 1 /\ pc' = "section"
    BY <1>1, <2>2
  <2>4. CutTypeOK'
    BY <1>1, <1>2, <1>3, <2>1, <2>3 DEF CutTypeOK, Places
  <2>5. PiecesCover' /\ HeadingsLead' /\ PiecesFit'
    <3>1. at' \in at..Len(body)
      BY <1>2, <1>3, <2>1, <2>3
    <3>2. \A p \in at + 1 .. at' : ~Ink(p)
      BY <1>2, <1>3, <2>1, <2>3
    <3> QED
      BY <1>1, <3>1, <3>2, Skipped DEF CutOK
  <2>6. ASSUME NEW p \in t.from + 1 .. t.to PROVE ~Heading(p)
    <3>1. p \in Position /\ p > at + 1 /\ p <= end
      BY <1>2, <1>3, <2>1 DEF Position
    <3> QED
      BY <1>3, <3>1
  <2>7. SectionOK'
    <3>1. t.from \in 1..t.to /\ t.to <= Len(body)
      BY <1>2, <1>3, <2>1
    <3> QED
      BY <1>1, <2>1, <2>6, <3>1 DEF SectionOK, Ink, Heading
  <2> QED
    BY <1>1, <2>3, <2>4, <2>5, <2>7 DEF CutOK, Cutting
<1>6. CASE ~\E p \in at + 1 .. end : Ink(p)
  <2>1. at' = end /\ pc' = "sections" /\ section' = NoSpan
    BY <1>1, <1>4, <1>6
  <2>2. CutTypeOK'
    BY <1>1, <1>2, <1>3, <2>1 DEF CutTypeOK, Places, NoSpan, Span
  <2>3. PiecesCover' /\ HeadingsLead' /\ PiecesFit'
    <3>1. at' \in at..Len(body) /\ \A p \in at + 1 .. at' : ~Ink(p)
      BY <1>2, <1>3, <1>6, <2>1
    <3> QED
      BY <1>1, <3>1, Skipped DEF CutOK
  <2> QED
    BY <2>1, <2>2, <2>3 DEF CutOK, Cutting
<1> QED
  BY <1>5, <1>6

(* ... a section that fits is a piece ...                                  *)
LEMMA KeepSectionKeeps ==
  ASSUME CutOK, KeepSection
  PROVE  CutOK'
<1>1. /\ pc = "section" /\ Size(section) <= Target /\ pc' = "sections"
      /\ pieces' = Append(pieces, section) /\ at' = section.to
      /\ body' = body /\ paragraph' = paragraph /\ section' = section
  BY DEF KeepSection, Keep, input
<1>2. CutTypeOK /\ SectionOK /\ at = section.from - 1
  BY <1>1 DEF CutOK, Cutting
<1>3. /\ section \in Span /\ section.from \in Nat /\ section.to \in Nat
      /\ section.from = at + 1 /\ section.to \in at + 1 .. Len(body)
      /\ at \in Nat /\ Len(body) \in Nat
  BY <1>2 DEF CutTypeOK, Span, SectionOK
<1>4. \A p \in section.from + 1 .. section.to : ~Heading(p)
  BY <1>2 DEF SectionOK
<1>5. PiecesCover' /\ HeadingsLead' /\ PiecesFit'
  BY <1>1, <1>2, <1>3, <1>4, Kept DEF CutOK
<1>6. CutTypeOK'
  BY <1>1, <1>2, <1>3 DEF CutTypeOK, Places
<1> QED
  BY <1>1, <1>5, <1>6 DEF CutOK, Cutting

(* ... a paragraph to the next blank line.                                 *)
LEMMA TakeParagraphKeeps ==
  ASSUME CutOK, TakeParagraph
  PROVE  CutOK'
<1> DEFINE S == {p \in at + 1 .. section.to : BlankLine(p) /\ \E q \in at + 1 .. p : Ink(q)}
           end == Before(S, section.to)
           t == Trimmed(at + 1, end)
<1>1. /\ pc \in {"section", "paragraphs"} /\ at < section.to
      /\ paragraph' = t /\ at' = t.from - 1 /\ pc' = "paragraph"
      /\ body' = body /\ section' = section /\ pieces' = pieces
  BY DEF TakeParagraph, input
<1>2. CutTypeOK /\ SectionOK /\ at >= section.from - 1
  BY <1>1 DEF CutOK, Cutting, CutTypeOK, Span, SectionOK
<1>3. /\ section.from \in Nat /\ section.to \in Nat /\ section.to <= Len(body)
      /\ at \in Nat /\ Len(body) \in Nat /\ Ink(section.to)
  BY <1>2 DEF CutTypeOK, Span, SectionOK
<1>4. \A p \in S : /\ p \in (at + 1) + 1 .. section.to /\ ~Ink(p)
                   /\ \E q \in at + 1 .. p - 1 : Ink(q)
  <2> SUFFICES ASSUME NEW p \in S
               PROVE  /\ p \in (at + 1) + 1 .. section.to /\ ~Ink(p)
                      /\ \E q \in at + 1 .. p - 1 : Ink(q)
    OBVIOUS
  <2>1. p \in at + 1 .. section.to /\ ~Ink(p)
    BY DEF BlankLine
  <2>2. PICK q \in at + 1 .. p : Ink(q)
    OBVIOUS
  <2>3. q # p
    BY <2>1, <2>2
  <2>4. q \in at + 1 .. p - 1
    BY <1>3, <2>1, <2>2, <2>3
  <2>5. p \in (at + 1) + 1 .. section.to
    BY <1>3, <2>1, <2>4
  <2> QED
    BY <2>1, <2>2, <2>4, <2>5
<1> HIDE DEF S
<1>5. /\ end \in at + 1 .. section.to
      /\ end # section.to => end + 1 \in S
  <2>1. at + 1 \in Nat /\ at + 1 <= section.to /\ S \subseteq (at + 1) + 1 .. section.to
    BY <1>1, <1>3, <1>4
  <2> QED
    BY <1>3, <2>1, BeforeIs
<1> HIDE DEF end
<1>6. \E p \in at + 1 .. end : Ink(p)
  <2>1. CASE end = section.to
    BY <1>3, <1>5, <2>1
  <2>2. CASE end # section.to
    <3>1. \E q \in at + 1 .. (end + 1) - 1 : Ink(q)
      BY <1>4, <1>5, <2>2
    <3>2. (end + 1) - 1 = end
      BY <1>3, <1>5
    <3> QED
      BY <3>1, <3>2
  <2> QED
    BY <2>1, <2>2
<1>7. /\ t \in Span
      /\ at + 1 <= t.from /\ t.from <= t.to /\ t.to <= end
      /\ \A p \in at + 1 .. end : Ink(p) => p \in t.from..t.to
  <2>1. at + 1 \in Nat /\ end \in Nat
    BY <1>3, <1>5
  <2> QED
    BY <1>6, <2>1, TrimmedIs
<1> HIDE DEF t
<1>8. t.from \in Nat /\ t.to \in Nat
  BY <1>7 DEF Span
<1>9. at' \in at..Len(body) /\ \A p \in at + 1 .. at' : ~Ink(p)
  BY <1>1, <1>3, <1>5, <1>7, <1>8
<1>10. PiecesCover' /\ HeadingsLead' /\ PiecesFit'
  BY <1>1, <1>2, <1>9, Skipped DEF CutOK
<1>11. CutTypeOK'
  BY <1>1, <1>2, <1>3, <1>7, <1>9 DEF CutTypeOK, Places
<1>12. SectionOK' /\ at' >= section'.from - 1 /\ paragraph'.to \in at' + 1 .. section'.to
  <2>1. SectionOK'
    BY <1>1, <1>2, SectionStays
  <2> QED
    BY <1>1, <1>2, <1>3, <1>5, <1>7, <1>8, <2>1
<1> QED
  BY <1>1, <1>10, <1>11, <1>12 DEF CutOK, Cutting

(* ... and one that does not fit is cut at the target.                     *)
LEMMA CutParagraphKeeps ==
  ASSUME CutOK, CutParagraph
  PROVE  CutOK'
<1> DEFINE end == IF at + Target < paragraph.to THEN at + Target ELSE paragraph.to
           s == [from |-> at + 1, to |-> end]
<1>1. /\ pc = "paragraph" /\ pieces' = Append(pieces, s) /\ at' = s.to
      /\ pc' = IF at' = paragraph.to THEN "paragraphs" ELSE "paragraph"
      /\ body' = body /\ section' = section /\ paragraph' = paragraph
  BY DEF CutParagraph, Keep, input
<1>2. /\ CutTypeOK /\ SectionOK /\ at >= section.from - 1
      /\ paragraph.to \in at + 1 .. section.to
  BY <1>1 DEF CutOK, Cutting
<1>3. /\ section.from \in Nat /\ section.to \in Nat /\ section.to <= Len(body)
      /\ at \in Nat /\ Len(body) \in Nat /\ paragraph.to \in Nat
      /\ Target \in Nat /\ Target > 0
  BY <1>2, TargetAssumption DEF CutTypeOK, Span, SectionOK
<1>4. end \in at + 1 .. paragraph.to /\ end <= at + Target
  BY <1>2, <1>3
<1> HIDE DEF end
<1>5. s \in Span /\ s.from = at + 1 /\ s.to = end
  BY <1>3, <1>4 DEF Span
<1> HIDE DEF s
<1>6. at' = end
  BY <1>1, <1>5
<1>7. Size(s) <= Target
  BY <1>3, <1>4, <1>5 DEF Size
<1>8. \A p \in s.from + 1 .. s.to : ~Heading(p)
  <2>1. \A p \in s.from + 1 .. s.to : p \in section.from + 1 .. section.to
    BY <1>2, <1>3, <1>4, <1>5
  <2> QED
    BY <1>2, <2>1 DEF SectionOK
<1>9. PiecesCover' /\ HeadingsLead' /\ PiecesFit'
  <2>1. s.to \in at + 1 .. Len(body)
    BY <1>2, <1>3, <1>4, <1>5
  <2> QED
    BY <1>1, <1>2, <1>5, <1>7, <1>8, <2>1, Kept DEF CutOK
<1>10. CutTypeOK'
  <2>1. at' \in 0..Len(body)
    BY <1>2, <1>3, <1>4, <1>6
  <2>2. pieces' \in Seq(Span)
    BY <1>1, <1>2, <1>5 DEF CutTypeOK
  <2> QED
    BY <1>1, <1>2, <2>1, <2>2 DEF CutTypeOK, Places
<1>11. SectionOK'
  BY <1>1, <1>2, SectionStays
<1>12. CASE at' = paragraph.to
  <2>1. at' \in section.from .. section.to
    BY <1>2, <1>3, <1>4, <1>6
  <2> QED
    BY <1>1, <1>9, <1>10, <1>11, <1>12, <2>1 DEF CutOK, Cutting
<1>13. CASE at' # paragraph.to
  <2>1. at' >= section.from - 1 /\ paragraph.to \in at' + 1 .. section.to
    BY <1>2, <1>3, <1>4, <1>6, <1>13
  <2> QED
    BY <1>1, <1>9, <1>10, <1>11, <1>13, <2>1 DEF CutOK, Cutting
<1> QED
  BY <1>12, <1>13

(* The other steps leave what has been cut as it is.                       *)
LEMMA RestKeepsCut ==
  ASSUME CutOK, body' = body, pc' \in {"sections", "pack", "done"} \/ UNCHANGED pc, UNCHANGED cut
  PROVE  CutOK'
<1>1. /\ at' = at /\ section' = section /\ paragraph' = paragraph /\ pieces' = pieces
      /\ CutTypeOK
  BY DEF cut, CutOK
<1>2. CutTypeOK'
  BY <1>1 DEF CutTypeOK, Places
<1>3. PiecesCover' /\ HeadingsLead' /\ PiecesFit'
  BY <1>1 DEF CutOK, PiecesCover, HeadingsLead, PiecesFit, Ink, Heading, Size, Within
<1>4. SectionOK => SectionOK'
  BY <1>1, SectionStays
<1>5. Cutting'
  BY <1>1, <1>4 DEF CutOK, Cutting
<1> QED
  BY <1>2, <1>3, <1>5 DEF CutOK

(***************************************************************************)
(* Packing.                                                                *)
(***************************************************************************)

(* Sequences: appending commutes with concatenation.                       *)
LEMMA Concat ==
  ASSUME NEW A, NEW a \in Seq(A), NEW b \in Seq(A), NEW x \in A
  PROVE  /\ a \o b \in Seq(A)
         /\ a \o <<x>> = Append(a, x)
         /\ a \o Append(b, x) = Append(a \o b, x)
<1>1. a \o b \in Seq(A)
  OBVIOUS
<1>2. a \o <<x>> = Append(a, x)
  OBVIOUS
<1>3. a \o Append(b, x) = Append(a \o b, x)
  OBVIOUS
<1> QED
  BY <1>1, <1>2, <1>3

LEMMA ConcatEmpty ==
  ASSUME NEW A, NEW a \in Seq(A)
  PROVE  a \o <<>> = a /\ <<>> \o a = a
OBVIOUS

LEMMA PrefixGrows ==
  ASSUME NEW A, NEW a \in Seq(A), NEW n \in Nat, n < Len(a)
  PROVE  SubSeq(a, 1, n + 1) = Append(SubSeq(a, 1, n), a[n + 1])
OBVIOUS

(* Chunks that are as full as may be, and do not have the title.           *)
Filled(cs) ==
  /\ \A k \in DOMAIN cs : Total(cs[k].pieces) <= Target
  /\ \A k \in 1..Len(cs) - 1 : Total(cs[k].pieces) + Size(cs[k + 1].pieces[1]) > Target
Untitled(cs) == \A k \in DOMAIN cs : ~cs[k].title

PackTypeOK ==
  /\ titled \in BOOLEAN
  /\ pc \in Places
  /\ taken \in 0..Len(pieces)
  /\ gathered \in Seq(Span)
  /\ buffered \in Nat
  /\ chunks \in Seq(ChunkRecord)

(* What is in the buffer: it fits, and no piece could have gone with the   *)
(* chunk before.                                                           *)
Gathering ==
  /\ buffered = Total(gathered) /\ buffered <= Target
  /\ pc = "pack" /\ chunks # <<>> =>
       /\ gathered # <<>>
       /\ Total(chunks[Len(chunks)].pieces) + Size(gathered[1]) > Target
  /\ pc # "pack" => gathered = <<>>

Packing ==
  /\ pc \notin {"pack", "done"} => taken = 0 /\ chunks = <<>>
  /\ pc # "done" => Untitled(chunks)

PackOK ==
  PackTypeOK /\ PackingKeeps /\ Gathering /\ Packing /\ FilledToTarget /\ TitleSearchable

(* PackingKeeps, said of what the chunks hold, before and after a step.    *)
LEMMA PackedPieces == PackingKeeps <=> Packed(chunks) \o gathered = SubSeq(pieces, 1, taken)
BY UnpackedIs DEF PackingKeeps

LEMMA PackedPiecesNext ==
  PackingKeeps' <=> Packed(chunks') \o gathered' = SubSeq(pieces', 1, taken')
<1>1. Unpacked'[Len(chunks')] = Packed(chunks')
  BY DEF Unpacked, Packed, UnpackedOf
<1> QED
  BY <1>1 DEF PackingKeeps

(* FilledToTarget says so of the chunks, before and after a step.          *)
LEMMA FilledIs == (FilledToTarget <=> Filled(chunks)) /\ (FilledToTarget' <=> Filled(chunks'))
<1>1. \A ps : Total(ps)' = Total(ps)
  BY DEF Total, Size
<1>2. \A s : Size(s)' = Size(s)
  BY DEF Size
<1> QED
  BY <1>1, <1>2 DEF FilledToTarget, Filled

(* Closing the chunk that is being packed.                                 *)
LEMMA Closed ==
  ASSUME PackTypeOK, FilledToTarget, Gathering, Untitled(chunks), pc = "pack",
         NEW cs, cs = Append(chunks, Chunk(gathered))
  PROVE  /\ cs \in Seq(ChunkRecord) /\ cs # <<>> /\ cs[Len(cs)].pieces = gathered
         /\ Filled(cs) /\ Untitled(cs)
         /\ Packed(cs) = Packed(chunks) \o gathered
<1> DEFINE c == Chunk(gathered)
           m == Len(chunks)
<1>1. chunks \in Seq(ChunkRecord) /\ gathered \in Seq(Span)
  BY DEF PackTypeOK
<1>2. c \in ChunkRecord /\ c.pieces = gathered /\ c.title = FALSE
  BY <1>1 DEF Chunk, ChunkRecord
<1>3. cs = Append(chunks, c)
  OBVIOUS
<1> HIDE DEF c
<1>4. /\ m \in Nat /\ DOMAIN chunks = 1..m
      /\ cs \in Seq(ChunkRecord) /\ Len(cs) = m + 1 /\ DOMAIN cs = 1..m + 1 /\ cs[m + 1] = c
      /\ \A k \in 1..m : cs[k] = chunks[k]
  BY <1>1, <1>2, <1>3
<1>5. Packed(cs) = Packed(chunks) \o gathered
  BY <1>1, <1>2, <1>3, PackedAppend
<1> HIDE DEF m
<1>6. \A k \in 1..m + 1 : k \in 1..m \/ k = m + 1
  BY <1>4
<1>7. Untitled(cs)
  BY <1>2, <1>4, <1>6 DEF Untitled
<1>8. ASSUME NEW k \in 1..m + 1 PROVE Total(cs[k].pieces) <= Target
  <2>1. CASE k \in 1..m
    BY <1>4, <2>1 DEF FilledToTarget
  <2>2. CASE k = m + 1
    BY <1>2, <1>4, <2>2 DEF Gathering
  <2> QED
    BY <1>6, <2>1, <2>2
<1>9. ASSUME NEW k \in 1..m PROVE Total(cs[k].pieces) + Size(cs[k + 1].pieces[1]) > Target
  <2>1. CASE k = m
    <3>1. chunks # <<>> /\ m \in 1..m
      BY <1>4, <2>1
    <3>2. Total(chunks[m].pieces) + Size(gathered[1]) > Target
      BY <3>1 DEF Gathering, m
    <3> QED
      BY <1>2, <1>4, <2>1, <3>1, <3>2
  <2>2. CASE k # m
    <3>1. k \in 1..m - 1 /\ k + 1 \in 1..m
      BY <1>4, <2>2
    <3>2. Total(chunks[k].pieces) + Size(chunks[k + 1].pieces[1]) > Target
      BY <3>1 DEF FilledToTarget, m
    <3> QED
      BY <1>4, <3>1, <3>2
  <2> QED
    BY <2>1, <2>2
<1>10. Filled(cs)
  <2>1. Len(cs) - 1 = m
    BY <1>4
  <2> QED
    BY <1>4, <1>8, <1>9, <2>1 DEF Filled
<1> QED
  BY <1>2, <1>4, <1>5, <1>7, <1>10

(* A piece that does not fit closes the chunk, any other joins it.         *)
LEMMA PackNextKeeps ==
  ASSUME CutOK, PackOK, PackNext
  PROVE  PackOK'
<1> DEFINE s == pieces[taken + 1]
<1>1. /\ pc = "pack" /\ pc' = "pack" /\ taken < Len(pieces) /\ taken' = taken + 1
      /\ titled' = titled /\ pieces' = pieces
  BY DEF PackNext, input, cut
<1>2. /\ IF Overflows(s)
         THEN /\ chunks' = Append(chunks, Chunk(gathered))
              /\ gathered' = <<s>>
              /\ buffered' = Size(s)
         ELSE /\ gathered' = Append(gathered, s)
              /\ buffered' = buffered + Size(s)
              /\ chunks' = chunks
  BY DEF PackNext
<1>3. /\ chunks \in Seq(ChunkRecord) /\ gathered \in Seq(Span) /\ buffered \in Nat
      /\ taken \in Nat /\ pieces \in Seq(Span) /\ Target \in Nat /\ titled \in BOOLEAN
  BY TargetAssumption DEF PackOK, PackTypeOK, CutOK, CutTypeOK
<1>4. taken + 1 \in DOMAIN pieces
  BY <1>1, <1>3
<1>5. s \in Span /\ Size(s) \in 1..Target
  <2>1. s \in Span /\ Size(s) > 0 /\ Size(s) <= Target
    BY <1>3, <1>4 DEF CutOK, PiecesCover, PiecesFit
  <2> QED
    BY <1>3, <2>1 DEF Span, Size
<1>6. SubSeq(pieces, 1, taken + 1) = Append(SubSeq(pieces, 1, taken), s)
  BY <1>1, <1>3, PrefixGrows
<1> HIDE DEF s
<1>7. Packed(chunks) \o gathered = SubSeq(pieces, 1, taken)
  BY PackedPieces DEF PackOK
<1>8. /\ buffered = Total(gathered) /\ buffered <= Target
      /\ chunks # <<>> => /\ gathered # <<>>
                          /\ Total(chunks[Len(chunks)].pieces) + Size(gathered[1]) > Target
      /\ Untitled(chunks) /\ FilledToTarget
  BY <1>1 DEF PackOK, Gathering, Packing
<1>9. Packed(chunks) \in Seq(Span)
  BY <1>3, PackedType
<1>10. \A ps : Total(ps)' = Total(ps) /\ Size(ps)' = Size(ps)
  BY DEF Total, Size
<1>11. SUFFICES /\ chunks' \in Seq(ChunkRecord) /\ gathered' \in Seq(Span) /\ buffered' \in Nat
                /\ Packed(chunks') \o gathered' = SubSeq(pieces, 1, taken + 1)
                /\ buffered' = Total(gathered') /\ buffered' <= Target
                /\ chunks' # <<>> =>
                     /\ gathered' # <<>>
                     /\ Total(chunks'[Len(chunks')].pieces) + Size(gathered'[1]) > Target
                /\ Filled(chunks') /\ Untitled(chunks')
  <2>1. PackTypeOK'
    BY <1>1, <1>3, <1>11 DEF PackTypeOK, Places
  <2>2. PackingKeeps'
    BY <1>1, <1>11, PackedPiecesNext
  <2>3. Gathering'
    BY <1>1, <1>10, <1>11 DEF Gathering
  <2>4. Packing'
    BY <1>1, <1>11 DEF Packing, Untitled
  <2>5. FilledToTarget'
    BY <1>11, FilledIs
  <2>6. TitleSearchable'
    BY <1>1 DEF TitleSearchable
  <2> QED
    BY <2>1, <2>2, <2>3, <2>4, <2>5, <2>6 DEF PackOK
<1>12. CASE Overflows(s)
  <2>1. /\ chunks' = Append(chunks, Chunk(gathered)) /\ gathered' = <<s>> /\ buffered' = Size(s)
        /\ buffered + Size(s) > Target
    BY <1>2, <1>12 DEF Overflows
  <2>2. /\ chunks' \in Seq(ChunkRecord) /\ chunks' # <<>>
        /\ chunks'[Len(chunks')].pieces = gathered
        /\ Filled(chunks') /\ Untitled(chunks')
        /\ Packed(chunks') = Packed(chunks) \o gathered
    BY <1>1, <1>8, <2>1, Closed DEF PackOK
  <2>3. gathered' \in Seq(Span) /\ gathered' # <<>> /\ gathered'[1] = s
    BY <1>5, <2>1
  <2>4. Packed(chunks') \o gathered' = SubSeq(pieces, 1, taken + 1)
    <3>1. (Packed(chunks) \o gathered) \o <<s>> = Append(Packed(chunks) \o gathered, s)
      BY <1>3, <1>5, <1>9, Concat
    <3> QED
      BY <1>6, <1>7, <2>1, <2>2, <3>1
  <2>5. buffered' = Total(gathered')
    BY <1>5, <2>1, TotalOfOne
  <2>6. Total(chunks'[Len(chunks')].pieces) + Size(gathered'[1]) > Target
    BY <1>8, <2>1, <2>2, <2>3
  <2> QED
    BY <1>3, <1>5, <2>1, <2>2, <2>3, <2>4, <2>5, <2>6
<1>13. CASE ~Overflows(s)
  <2>1. gathered' = Append(gathered, s) /\ buffered' = buffered + Size(s) /\ chunks' = chunks
    BY <1>2, <1>13
  <2>2. gathered' \in Seq(Span) /\ gathered' # <<>>
        /\ (gathered # <<>> => gathered'[1] = gathered[1])
    BY <1>3, <1>5, <2>1
  <2>3. Packed(chunks') \o gathered' = SubSeq(pieces, 1, taken + 1)
    <3>1. Packed(chunks) \o Append(gathered, s) = Append(Packed(chunks) \o gathered, s)
      BY <1>3, <1>5, <1>9, Concat
    <3> QED
      BY <1>6, <1>7, <2>1, <3>1
  <2>4. buffered' = Total(gathered') /\ buffered' \in Nat
    <3>1. Total(Append(gathered, s)) = Total(gathered) + Size(s)
      BY <1>3, <1>5, TotalAppend
    <3> QED
      BY <1>3, <1>5, <1>8, <2>1, <3>1
  <2>5. buffered' <= Target
    <3>1. CASE gathered = <<>>
      <4>1. buffered = 0
        BY <1>8, <3>1, TotalEmpty
      <4> QED
        BY <1>3, <1>5, <2>1, <4>1
    <3>2. CASE gathered # <<>>
      <4>1. ~(buffered + Size(s) > Target)
        BY <1>13, <3>2 DEF Overflows
      <4> QED
        BY <1>3, <1>5, <2>1, <4>1
    <3> QED
      BY <3>1, <3>2
  <2>6. Filled(chunks') /\ Untitled(chunks')
    BY <1>8, <2>1, FilledIs
  <2>7. chunks' # <<>> => Total(chunks'[Len(chunks')].pieces) + Size(gathered'[1]) > Target
    BY <1>8, <2>1, <2>2
  <2> QED
    BY <1>3, <2>1, <2>2, <2>3, <2>4, <2>5, <2>6, <2>7
<1> QED
  BY <1>12, <1>13

(* The title goes first, and adds nothing to the pieces.                   *)
LEMMA TitledIs ==
  ASSUME titled \in BOOLEAN, NEW cs \in Seq(ChunkRecord), Filled(cs), Untitled(cs)
  PROVE  /\ Titled(cs) \in Seq(ChunkRecord) /\ Filled(Titled(cs))
         /\ Packed(Titled(cs)) = Packed(cs)
         /\ titled => Titled(cs) # <<>>
         /\ \A k \in DOMAIN Titled(cs) : Titled(cs)[k].title <=> (titled /\ k = 1)
<1>1. CASE ~titled
  <2>1. Titled(cs) = cs
    BY <1>1 DEF Titled
  <2> QED
    BY <1>1, <2>1 DEF Untitled
<1>2. CASE titled /\ cs = <<>>
  <2> DEFINE c == [title |-> TRUE, pieces |-> <<>>]
             ds == <<c>>
             e == <<>>
  <2>1. Titled(cs) = ds
    BY <1>2 DEF Titled
  <2>2. c \in ChunkRecord /\ c.pieces = e /\ c.title = TRUE /\ e \in Seq(Span)
    BY DEF ChunkRecord
  <2>3. Total(e) <= Target
    BY TotalEmpty, TargetAssumption
  <2>4. Packed(cs) = e
    BY <1>2, PackedEmpty
  <2> HIDE DEF c, e
  <2>5. ds \in Seq(ChunkRecord) /\ ds # <<>> /\ DOMAIN ds = {1} /\ Len(ds) = 1 /\ ds[1] = c
    BY <2>2
  <2>6. ds = Append(cs, c)
    BY <1>2
  <2> HIDE DEF ds
  <2>7. Packed(ds) = Packed(cs) \o e
    BY <2>2, <2>6, PackedAppend
  <2>8. Packed(ds) = Packed(cs)
    BY <2>2, <2>4, <2>7, ConcatEmpty DEF e
  <2>9. Filled(ds)
    <3>1. 1..Len(ds) - 1 = {}
      BY <2>5
    <3> QED
      BY <2>2, <2>3, <2>5, <3>1 DEF Filled
  <2> QED
    BY <1>2, <2>1, <2>2, <2>5, <2>8, <2>9
<1>3. CASE titled /\ cs # <<>>
  <2> DEFINE ds == [cs EXCEPT ![1].title = TRUE]
             m == Len(cs)
  <2>1. Titled(cs) = ds
    BY <1>3 DEF Titled
  <2>2. /\ m \in Nat /\ 1 \in 1..m /\ DOMAIN cs = 1..m
        /\ \A k \in 1..m : cs[k] \in ChunkRecord
    BY <1>3
  <2>3. /\ DOMAIN ds = 1..m
        /\ ds[1] = [cs[1] EXCEPT !.title = TRUE]
        /\ \A k \in 1..m : k # 1 => ds[k] = cs[k]
    BY <2>2
  <2>4. ds[1] \in ChunkRecord /\ ds[1].pieces = cs[1].pieces /\ ds[1].title = TRUE
    BY <2>2, <2>3 DEF ChunkRecord
  <2>5. ds \in Seq(ChunkRecord) /\ Len(ds) = m
    <3>1. ds = [cs EXCEPT ![1] = [cs[1] EXCEPT !.title = TRUE]]
      OBVIOUS
    <3>2. [cs[1] EXCEPT !.title = TRUE] \in ChunkRecord
      BY <2>3, <2>4
    <3> HIDE DEF ds
    <3> DEFINE c == [cs[1] EXCEPT !.title = TRUE]
    <3>3. c \in ChunkRecord /\ ds = [cs EXCEPT ![1] = c]
      BY <3>1, <3>2
    <3> HIDE DEF c
    <3> QED
      BY <2>2, <3>3
  <2> HIDE DEF ds
  <2>6. \A k \in 1..m : ds[k].pieces = cs[k].pieces
    BY <2>3, <2>4
  <2>7. Packed(ds) = Packed(cs)
    <3>1. m \in 0..Len(ds) /\ m <= Len(cs)
      BY <2>2, <2>5
    <3>2. UnpackedOf(ds)[m] = UnpackedOf(cs)[m]
      BY <2>5, <2>6, <3>1, PackedSame
    <3> QED
      BY <2>5, <3>2 DEF Packed
  <2>8. Filled(ds)
    <3>1. \A k \in 1..m : Total(ds[k].pieces) <= Target
      BY <2>2, <2>6 DEF Filled
    <3>2. ASSUME NEW k \in 1..m - 1 PROVE Total(ds[k].pieces) + Size(ds[k + 1].pieces[1]) > Target
      <4>1. k \in 1..m /\ k + 1 \in 1..m
        BY <2>2
      <4> QED
        BY <2>6, <4>1 DEF Filled
    <3> QED
      BY <2>3, <2>5, <3>1, <3>2 DEF Filled
  <2>9. \A k \in 1..m : ds[k].title <=> k = 1
    BY <2>2, <2>3, <2>4 DEF Untitled
  <2>10. ds # <<>>
    BY <2>2, <2>5
  <2> QED
    BY <1>3, <2>1, <2>3, <2>5, <2>7, <2>8, <2>9, <2>10
<1> QED
  BY <1>1, <1>2, <1>3

(* The last chunk is closed, and the first gets the title.                 *)
LEMMA FinishKeeps ==
  ASSUME CutOK, PackOK, Finish
  PROVE  PackOK'
<1> DEFINE cs == Flushed
           ds == Titled(cs)
<1>1. /\ pc = "pack" /\ pc' = "done" /\ taken = Len(pieces) /\ taken' = taken
      /\ titled' = titled /\ pieces' = pieces
      /\ chunks' = ds /\ gathered' = <<>> /\ buffered' = 0
  BY DEF Finish, input, cut
<1>2. /\ chunks \in Seq(ChunkRecord) /\ gathered \in Seq(Span) /\ titled \in BOOLEAN
      /\ taken \in 0..Len(pieces) /\ Target \in Nat
  BY TargetAssumption DEF PackOK, PackTypeOK
<1>3. Packed(chunks) \o gathered = SubSeq(pieces, 1, taken)
  BY PackedPieces DEF PackOK
<1>4. /\ cs \in Seq(ChunkRecord) /\ Filled(cs) /\ Untitled(cs)
      /\ Packed(cs) = SubSeq(pieces, 1, taken)
  <2>1. Untitled(chunks) /\ PackTypeOK /\ FilledToTarget /\ Gathering
    BY <1>1 DEF PackOK, Packing
  <2>2. CASE gathered = <<>>
    <3>1. cs = chunks
      BY <2>2 DEF Flushed
    <3>2. Packed(chunks) \o gathered = Packed(chunks)
      <4>1. Packed(chunks) \in Seq(Span)
        BY <1>2, PackedType
      <4> QED
        BY <2>2, <4>1, ConcatEmpty
    <3> QED
      BY <1>2, <1>3, <2>1, <3>1, <3>2, FilledIs
  <2>3. CASE gathered # <<>>
    <3>1. cs = Append(chunks, Chunk(gathered))
      BY <2>3 DEF Flushed
    <3> HIDE DEF cs
    <3> QED
      BY <1>1, <1>3, <2>1, <3>1, Closed
  <2> QED
    BY <2>2, <2>3
<1> HIDE DEF cs
<1>5. /\ ds \in Seq(ChunkRecord) /\ Filled(ds) /\ Packed(ds) = Packed(cs)
      /\ titled => ds # <<>>
      /\ \A k \in DOMAIN ds : ds[k].title <=> (titled /\ k = 1)
  BY <1>2, <1>4, TitledIs
<1> HIDE DEF ds
<1>6. PackTypeOK'
  BY <1>1, <1>2, <1>5 DEF PackTypeOK, Places
<1>7. PackingKeeps'
  <2>1. Packed(ds) \o <<>> = Packed(ds)
    <3>1. Packed(ds) \in Seq(Span)
      BY <1>5, PackedType
    <3> QED
      BY <3>1, ConcatEmpty
  <2> QED
    BY <1>1, <1>4, <1>5, <2>1, PackedPiecesNext
<1>8. Gathering'
  <2>1. \A ps : Total(ps)' = Total(ps)
    BY DEF Total, Size
  <2>2. Total(gathered') = 0 /\ 0 <= Target
    BY <1>1, <1>2, TotalEmpty
  <2> QED
    BY <1>1, <2>1, <2>2 DEF Gathering
<1>9. FilledToTarget'
  BY <1>1, <1>5, FilledIs
<1>10. TitleSearchable'
  BY <1>1, <1>5 DEF TitleSearchable
<1> QED
  BY <1>1, <1>6, <1>7, <1>8, <1>9, <1>10 DEF PackOK, Packing

(* Nothing is packed while the body is cut.                                *)
LEMMA CuttingKeepsPack ==
  ASSUME CutOK, CutTypeOK', PackOK, pc \notin {"pack", "done"}, pc' # "done",
         titled' = titled, UNCHANGED pack
  PROVE  PackOK'
<1>1. /\ taken' = taken /\ gathered' = gathered /\ buffered' = buffered /\ chunks' = chunks
  BY DEF pack
<1>2. taken = 0 /\ chunks = <<>> /\ gathered = <<>> /\ pieces \in Seq(Span) /\ pieces' \in Seq(Span)
  BY DEF PackOK, Packing, Gathering, CutOK, CutTypeOK
<1>3. PackTypeOK'
  BY <1>1, <1>2 DEF PackOK, PackTypeOK, CutTypeOK
<1>4. PackingKeeps'
  <2>1. SubSeq(pieces, 1, 0) = <<>> /\ SubSeq(pieces', 1, 0) = <<>>
    BY <1>2
  <2>2. Packed(chunks) \o gathered = SubSeq(pieces, 1, taken)
    BY PackedPieces DEF PackOK
  <2> QED
    BY <1>1, <1>2, <2>1, <2>2, PackedPiecesNext
<1>5. Gathering'
  <2>1. \A ps : Total(ps)' = Total(ps)
    BY DEF Total, Size
  <2> QED
    BY <1>1, <1>2, <2>1 DEF PackOK, Gathering
<1>6. Packing'
  BY <1>1, <1>2 DEF Packing, Untitled
<1>7. FilledToTarget'
  BY <1>1, FilledIs DEF PackOK
<1>8. TitleSearchable'
  BY DEF TitleSearchable
<1> QED
  BY <1>3, <1>4, <1>5, <1>6, <1>7, <1>8 DEF PackOK

(***************************************************************************)
(* The chunker.                                                            *)
(***************************************************************************)

ChunkInv == CutOK /\ PackOK

(* The chunker's invariant: it holds of a body that nothing has been done  *)
(* to,                                                                     *)
LEMMA InitChunkInv ==
  ASSUME ChunkInit
  PROVE  ChunkInv
<1>1. /\ body \in Seq(Char) /\ titled \in BOOLEAN /\ pc = "sections" /\ at = 0
      /\ section = NoSpan /\ paragraph = NoSpan /\ pieces = <<>> /\ taken = 0
      /\ gathered = <<>> /\ buffered = 0 /\ chunks = <<>>
  BY BodiesAssumption DEF ChunkInit
<1>2. CutOK
  BY <1>1 DEF CutOK, CutTypeOK, PiecesCover, HeadingsLead, PiecesFit, Cutting, Places, NoSpan, Span
<1>3. PackTypeOK
  BY <1>1 DEF PackTypeOK, Places
<1>4. PackingKeeps
  <2>1. SubSeq(pieces, 1, 0) = <<>> /\ <<>> \o gathered = gathered
    BY <1>1
  <2> QED
    BY <1>1, <2>1, PackedPieces, PackedEmpty
<1>5. Gathering
  BY <1>1, TotalEmpty, TargetAssumption DEF Gathering
<1>6. Packing /\ FilledToTarget /\ TitleSearchable
  BY <1>1 DEF Packing, Untitled, FilledToTarget, TitleSearchable
<1> QED
  BY <1>2, <1>3, <1>4, <1>5, <1>6 DEF ChunkInv, PackOK

(* it is kept by every step of the chunker,                                *)
LEMMA NextChunkInv ==
  ASSUME ChunkInv, ChunkNext
  PROVE  ChunkInv'
<1>1. CutOK /\ PackOK
  BY DEF ChunkInv
<1>2. CASE TakeSection
  <2>1. CutOK'
    BY <1>1, <1>2, TakeSectionKeeps
  <2>2. pc = "sections" /\ pc' \in {"sections", "section"} /\ titled' = titled /\ UNCHANGED pack
    BY <1>2 DEF TakeSection, input
  <2> QED
    BY <1>1, <2>1, <2>2, CuttingKeepsPack DEF ChunkInv, CutOK
<1>3. CASE KeepSection
  <2>1. CutOK'
    BY <1>1, <1>3, KeepSectionKeeps
  <2>2. pc = "section" /\ pc' = "sections" /\ titled' = titled /\ UNCHANGED pack
    BY <1>3 DEF KeepSection, input
  <2> QED
    BY <1>1, <2>1, <2>2, CuttingKeepsPack DEF ChunkInv, CutOK
<1>4. CASE TakeParagraph
  <2>1. CutOK'
    BY <1>1, <1>4, TakeParagraphKeeps
  <2>2. /\ pc \in {"section", "paragraphs"} /\ pc' = "paragraph"
        /\ titled' = titled /\ UNCHANGED pack
    BY <1>4 DEF TakeParagraph, input
  <2> QED
    BY <1>1, <2>1, <2>2, CuttingKeepsPack DEF ChunkInv, CutOK
<1>5. CASE CutParagraph
  <2>1. CutOK'
    BY <1>1, <1>5, CutParagraphKeeps
  <2>2. /\ pc = "paragraph" /\ pc' \in {"paragraph", "paragraphs"}
        /\ titled' = titled /\ UNCHANGED pack
    BY <1>5 DEF CutParagraph, input
  <2> QED
    BY <1>1, <2>1, <2>2, CuttingKeepsPack DEF ChunkInv, CutOK
<1>6. CASE SectionDone \/ SectionsDone
  <2>1. /\ pc \in {"paragraphs", "sections"} /\ pc' \in {"sections", "pack"}
        /\ body' = body /\ titled' = titled /\ UNCHANGED cut /\ UNCHANGED pack
    BY <1>6 DEF SectionDone, SectionsDone, input
  <2>2. CutOK'
    BY <1>1, <2>1, RestKeepsCut
  <2> QED
    BY <1>1, <2>1, <2>2, CuttingKeepsPack DEF ChunkInv, CutOK
<1>7. CASE PackNext
  <2>1. CutOK'
    BY <1>1, <1>7, RestKeepsCut DEF PackNext, input
  <2> QED
    BY <1>1, <1>7, <2>1, PackNextKeeps DEF ChunkInv
<1>8. CASE Finish
  <2>1. CutOK'
    BY <1>1, <1>8, RestKeepsCut DEF Finish, input
  <2> QED
    BY <1>1, <1>8, <2>1, FinishKeeps DEF ChunkInv
<1> QED
  BY <1>2, <1>3, <1>4, <1>5, <1>6, <1>7, <1>8 DEF ChunkNext

(* and by those that leave it alone,                                       *)
LEMMA StutterChunkInv ==
  ASSUME ChunkInv, UNCHANGED chunkVars
  PROVE  ChunkInv'
<1>1. CutOK'
  BY RestKeepsCut DEF chunkVars, cut, ChunkInv
<1>2. PackOK'
  <2>1. /\ titled' = titled /\ pc' = pc /\ taken' = taken /\ gathered' = gathered
        /\ buffered' = buffered /\ chunks' = chunks /\ pieces' = pieces /\ PackOK
    BY DEF chunkVars, ChunkInv
  <2>2. PackTypeOK' /\ Packing' /\ TitleSearchable'
    BY <2>1 DEF PackOK, PackTypeOK, Packing, Untitled, TitleSearchable
  <2>3. FilledToTarget' /\ PackingKeeps'
    BY <2>1, FilledIs, PackedPieces, PackedPiecesNext DEF PackOK
  <2>4. Gathering'
    <3>1. \A ps : Total(ps)' = Total(ps) /\ Size(ps)' = Size(ps)
      BY DEF Total, Size
    <3> QED
      BY <2>1, <3>1 DEF PackOK, Gathering
  <2> QED
    BY <2>2, <2>3, <2>4 DEF PackOK
<1> QED
  BY <1>1, <1>2 DEF ChunkInv

(* and it has all that ChunksSound asks for.                               *)
LEMMA ChunkInvImplies ==
  ASSUME ChunkInv
  PROVE  ChunksSound
<1>1. CutOK /\ PackOK
  BY DEF ChunkInv
<1>2. ChunkTypeOK
  BY <1>1 DEF ChunkTypeOK, CutOK, CutTypeOK, PackOK, PackTypeOK, ChunkRecord
<1> QED
  BY <1>1, <1>2 DEF ChunksSound, NothingLost, WellCut, CutOK, PackOK

(***************************************************************************)
(* The sidecar: the chunker, the index and the answer at hand.             *)
(***************************************************************************)

(* Once the chunks are in the index the chunker is as good as new.         *)
LEMMA PutAwayKeeps ==
  ASSUME ChunkInv, pc = "done", PutAway
  PROVE  ChunkInv'
<1>1. /\ body' = <<>> /\ titled' = FALSE /\ at' = 0 /\ section' = NoSpan /\ paragraph' = NoSpan
      /\ pieces' = <<>> /\ taken' = 0 /\ chunks' = <<>>
      /\ pc' = "done" /\ gathered' = gathered /\ buffered' = buffered
  BY DEF PutAway
<1>2. PackOK
  BY DEF ChunkInv
<1>3. gathered = <<>> /\ buffered = Total(gathered) /\ buffered <= Target /\ buffered \in Nat
  BY <1>2 DEF PackOK, Gathering, PackTypeOK
<1>4. CutOK'
  BY <1>1 DEF CutOK, CutTypeOK, PiecesCover, HeadingsLead, PiecesFit, Cutting, Places, NoSpan, Span
<1>5. PackTypeOK'
  <2>1. taken' \in 0..Len(pieces') /\ chunks' \in Seq(ChunkRecord) /\ gathered' \in Seq(Span)
    BY <1>1, <1>3
  <2> QED
    BY <1>1, <1>3, <2>1 DEF PackTypeOK, Places
<1>6. PackingKeeps'
  <2>1. SubSeq(pieces', 1, 0) = <<>> /\ <<>> \o gathered' = <<>>
    BY <1>1, <1>3
  <2> QED
    BY <1>1, <2>1, PackedPiecesNext, PackedEmpty
<1>7. Gathering'
  <2>1. \A ps : Total(ps)' = Total(ps)
    BY DEF Total, Size
  <2> QED
    BY <1>1, <1>3, <2>1 DEF Gathering
<1>8. Packing' /\ FilledToTarget' /\ TitleSearchable'
  BY <1>1 DEF Packing, Untitled, FilledToTarget, TitleSearchable
<1> QED
  BY <1>4, <1>5, <1>6, <1>7, <1>8 DEF ChunkInv, PackOK

(* An index and an answer that are not touched stay as they are.           *)
LEMMA RetrievalStays ==
  ASSUME RetrievalOK, UNCHANGED retrieval
  PROVE  RetrievalOK'
<1>1. vault' = vault /\ index' = index /\ asked' = asked /\ reply' = reply
  BY DEF retrieval
<1>2. VaultOK' /\ IndexOK'
  BY <1>1 DEF RetrievalOK, VaultOK, IndexOK
<1>3. AnswerOK'
  BY <1>1 DEF RetrievalOK, AnswerOK, Answered, Mismatched, Scored
<1> QED
  BY <1>2, <1>3 DEF RetrievalOK

(* The notes stay notes with the number of chunks in one.                  *)
LEMMA NotesOK ==
  ASSUME VaultOK, PackTypeOK
  PROVE  Notes \in Seq(NoteRecord) \ {<<>>}
<1> DEFINE ns == vault.notes
           n == [ns[1] EXCEPT !.size = Len(chunks)]
<1>1. ns \in Seq(NoteRecord) /\ ns # <<>> /\ Len(chunks) \in Nat
  BY DEF VaultOK, PackTypeOK
<1>2. ns[1] \in NoteRecord
  BY <1>1
<1>3. n \in NoteRecord
  BY <1>1, <1>2 DEF NoteRecord
<1>4. Notes = [ns EXCEPT ![1] = n]
  BY DEF Notes
<1> HIDE DEF n, ns
<1> QED
  BY <1>1, <1>3, <1>4

(* An index that is built is of the vault's notes as they are cut by then. *)
LEMMA BuildKeeps ==
  ASSUME ChunkInv, RetrievalOK, Build
  PROVE  ChunkInv' /\ RetrievalOK'
<1>1. pc = "done" /\ asked' = asked /\ index = NoIndex
  BY DEF Build
<1>2. CASE Indexable(Notes)
  <2>1. /\ \E model \in IndexModels : index' = Index(Notes, vault.events, model)
        /\ vault' = [vault EXCEPT !.notes = Notes]
        /\ PutAway
        /\ reply' = [code |-> "built", hits |-> <<>>]
    BY <1>2 DEF Build, Replies
  <2>2. Notes \in Seq(NoteRecord) \ {<<>>}
    BY NotesOK DEF RetrievalOK, ChunkInv, PackOK
  <2>3. VaultOK
    BY DEF RetrievalOK
  <2>4. vault'.notes = Notes /\ vault'.events = vault.events
    BY <2>1, <2>3 DEF VaultOK
  <2>5. VaultOK'
    BY <2>1, <2>2, <2>3 DEF VaultOK
  <2>6. IndexOK'
    BY <2>1, <2>4 DEF IndexOK
  <2>7. AnswerOK'
    BY <2>1 DEF AnswerOK, Answered
  <2>8. ChunkInv'
    BY <1>1, <2>1, PutAwayKeeps
  <2> QED
    BY <2>5, <2>6, <2>7, <2>8 DEF RetrievalOK
<1>3. CASE ~Indexable(Notes)
  <2>1. /\ UNCHANGED chunkVars /\ vault' = vault /\ index' = index
        /\ reply' = [code |-> "index_build_failed", hits |-> <<>>]
    BY <1>3 DEF Build, Replies
  <2>2. VaultOK' /\ IndexOK'
    BY <2>1 DEF RetrievalOK, VaultOK, IndexOK
  <2>3. AnswerOK'
    BY <2>1 DEF AnswerOK, Answered
  <2> QED
    BY <2>1, <2>2, <2>3, StutterChunkInv DEF RetrievalOK
<1> QED
  BY <1>2, <1>3

(* What a request becomes on its way is a request.                         *)
LEMMA SentIsRequest ==
  ASSUME NEW ask \in QueryRequest
  PROVE  Sent(ask) \in QueryRequest
BY ModelsAssumption DEF QueryRequest, Sent

(* A query that gets past every check is answered with the index's rows.   *)
LEMMA QueryKeeps ==
  ASSUME RetrievalOK, Query
  PROVE  RetrievalOK'
<1>1. vault' = vault /\ index' = index
  BY DEF Query
<1>2. VaultOK' /\ IndexOK'
  BY <1>1 DEF RetrievalOK, VaultOK, IndexOK
<1>3. PICK question \in Questions(index) \cap Scored(index) :
        LET ask == Sent(question.ask)
        IN /\ asked' = [question EXCEPT !.ask = ask]
           /\ IF Refused(ask) THEN Replies("bad_arguments", <<>>)
              ELSE IF Malformed(ask) # "no" THEN Replies(Malformed(ask), <<>>)
              ELSE IF index = NoIndex THEN Replies("index_missing", <<>>)
              ELSE IF Unparseable \in {ask.from, ask.to} THEN Replies("invalid_args", <<>>)
              ELSE IF Mismatched(ask) THEN Replies("index_model_mismatch", <<>>)
              ELSE Replies("ok", Rows(index, ask, question.bm25, question.cosine,
                                      AllowedNotes(index, ask)))
  BY DEF Query
<1> DEFINE ask == Sent(question.ask)
<1>4. question \in Scored(index)
  OBVIOUS
<1>5. asked' = [question EXCEPT !.ask = ask]
  BY <1>3
<1>6. /\ asked'.ask = ask /\ asked'.bm25 = question.bm25 /\ asked'.cosine = question.cosine
      /\ asked' \in Scored(index)
  <2>1. question.ask \in QueryRequest
    BY <1>4 DEF Scored
  <2>2. ask \in QueryRequest
    BY <2>1, SentIsRequest
  <2> HIDE DEF ask
  <2> QED
    BY <1>4, <1>5, <2>2 DEF Scored
<1>7. ASSUME reply'.code = "ok"
      PROVE  /\ index # NoIndex /\ Malformed(ask) = "no" /\ Unparseable \notin {ask.from, ask.to}
             /\ ~Mismatched(ask)
             /\ reply'.hits = Rows(index, ask, question.bm25, question.cosine,
                                   AllowedNotes(index, ask))
  <2> HIDE DEF ask
  <2>1. \A c, h : Replies(c, h) => reply'.code = c /\ reply'.hits = h
    BY DEF Replies
  <2>2. Malformed(ask) # "ok"
    BY DEF Malformed
  <2>3. IF Refused(ask) THEN Replies("bad_arguments", <<>>)
        ELSE IF Malformed(ask) # "no" THEN Replies(Malformed(ask), <<>>)
        ELSE IF index = NoIndex THEN Replies("index_missing", <<>>)
        ELSE IF Unparseable \in {ask.from, ask.to} THEN Replies("invalid_args", <<>>)
        ELSE IF Mismatched(ask) THEN Replies("index_model_mismatch", <<>>)
        ELSE Replies("ok", Rows(index, ask, question.bm25, question.cosine,
                                AllowedNotes(index, ask)))
    BY <1>3 DEF ask
  <2>4. ~Refused(ask) /\ Malformed(ask) = "no"
    BY <1>7, <2>1, <2>2, <2>3
  <2>5. index # NoIndex /\ Unparseable \notin {ask.from, ask.to} /\ ~Mismatched(ask)
    BY <1>7, <2>1, <2>3, <2>4
  <2> QED
    BY <2>1, <2>3, <2>4, <2>5
<1> HIDE DEF ask
<1>8. Scored(index)' = Scored(index) /\ (Mismatched(ask) <=> Mismatched(asked'.ask))
  BY <1>1, <1>6 DEF Scored
<1>9. AnswerOK'
  <2> SUFFICES ASSUME Answered' PROVE AnswerOK'
    BY DEF AnswerOK
  <2>1. reply'.code = "ok"
    BY DEF Answered
  <2>2. /\ index # NoIndex /\ Malformed(ask) = "no" /\ Unparseable \notin {ask.from, ask.to}
        /\ ~Mismatched(ask)
        /\ reply'.hits = Rows(index, ask, question.bm25, question.cosine, AllowedNotes(index, ask))
    BY <1>7, <2>1
  <2> QED
    BY <1>1, <1>6, <1>8, <2>2 DEF AnswerOK, Mismatched
<1> QED
  BY <1>2, <1>9 DEF RetrievalOK

RInv == ChunkInv /\ RetrievalOK

(* The invariant of chunker, index and answer.                             *)
LEMMA InitRInv == RInit => RInv
<1> SUFFICES ASSUME RInit PROVE RInv
  OBVIOUS
<1>1. PICK v \in Vaults : vault = [notes |-> v.notes, events |-> v.events]
  BY DEF RInit
<1>2. v \in VaultRecord
  BY VaultsAssumption
<1>3. VaultOK
  BY <1>1, <1>2 DEF VaultRecord, VaultOK
<1>4. IndexOK /\ AnswerOK
  BY DEF RInit, IndexOK, AnswerOK, Answered
<1>5. ChunkInv
  BY InitChunkInv DEF RInit
<1> QED
  BY <1>3, <1>4, <1>5 DEF RInv, RetrievalOK

LEMMA NextRInv == RInv /\ [RNext]_all => RInv'
<1> SUFFICES ASSUME RInv, [RNext]_all PROVE RInv'
  OBVIOUS
<1>1. ChunkInv /\ RetrievalOK
  BY DEF RInv
<1>2. CASE Cut
  BY <1>1, <1>2, NextChunkInv, RetrievalStays DEF Cut, RInv
<1>3. CASE Build
  BY <1>1, <1>3, BuildKeeps DEF RInv
<1>4. CASE Query
  BY <1>1, <1>4, QueryKeeps, StutterChunkInv DEF Query, RInv
<1>5. CASE Deliver
  <2>1. vault' = vault /\ index' = index /\ asked' = NoReply /\ UNCHANGED chunkVars
    BY <1>5 DEF Deliver
  <2>2. RetrievalOK'
    BY <1>1, <2>1 DEF RetrievalOK, VaultOK, IndexOK, AnswerOK, Answered
  <2> QED
    BY <1>1, <2>1, <2>2, StutterChunkInv DEF RInv
<1>6. CASE UNCHANGED all
  <2>1. UNCHANGED chunkVars /\ UNCHANGED retrieval
    BY <1>6 DEF all
  <2> QED
    BY <1>1, <2>1, StutterChunkInv, RetrievalStays DEF RInv
<1> QED
  BY <1>2, <1>3, <1>4, <1>5, <1>6 DEF RNext

(* Whatever a sidecar does, its chunker is where Cutting and Gathering     *)
(* say, its index is of its vault, and its answer is what the query makes  *)
(* of the index.                                                           *)
THEOREM RetrievalInductive == RSpec => []RInv
BY InitRInv, NextRInv, PTL DEF RSpec

(* chunking.py loses, doubles and reorders nothing of any body, severs no  *)
(* heading from what it heads, fills chunks as far as the target allows,   *)
(* and puts the title first (ChunksSound), for every body and target.      *)
THEOREM ChunksAreSound == RSpec => []ChunksSound
<1>1. RInv => ChunksSound
  BY ChunkInvImplies DEF RInv
<1> QED
  BY <1>1, RetrievalInductive, PTL

(* The filters of querying.py act before the ranking, its pool and its     *)
(* normalisation (FiltersFirst), for every vault, request and score.       *)
THEOREM FiltersActFirst == RSpec => []FiltersFirst
<1>1. RInv => FiltersFirst
  BY FiltersFirstHolds DEF RInv
<1> QED
  BY <1>1, RetrievalInductive, PTL

(* A page of querying.py is full as long as there is something to show, in *)
(* order, without repetition, and of one model (PageComplete).             *)
THEOREM PagesAreComplete == RSpec => []PageComplete
<1>1. RInv => PageComplete
  BY PageCompleteHolds DEF RInv
<1> QED
  BY <1>1, RetrievalInductive, PTL

(* Nothing that is worse by all that querying.py looks at is shown before  *)
(* or instead of what is better (ParetoOrder), whatever the pool and the   *)
(* normalisation make of the scores.                                       *)
THEOREM BetterComesFirst == RSpec => []ParetoOrder
<1>1. RInv => ParetoOrder
  BY ParetoOrderHolds DEF RInv
<1> QED
  BY <1>1, RetrievalInductive, PTL
===============================================================================
