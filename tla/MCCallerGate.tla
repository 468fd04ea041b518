----------------------------- MODULE MCCallerGate -----------------------------
(* CallerGate for TLC: two apps and the grant files a person might save.   *)
EXTENDS CallerGate

CONSTANTS broker, other, a

capture == <<"write", "capture">>
notes == <<"read", "notes">>
facts == <<"write", "facts">>
inA == <<"read", "notes", a>>

File1(grants) == Json(1, FALSE, grants)
MCFile ==
  {NoFile, Unreadable, Garbage,
   File1(<<Entry(broker, <<capture, <<"write", "notes">>, notes>>, <<>>)>>),
   File1(<<Entry(broker, <<notes>>, <<>>), Entry(other, <<facts, notes>>, <<facts>>)>>),
   File1(<<Entry(other, <<inA, facts, <<"read", "facts">>>>, <<>>)>>),
   File1(<<Entry(broker, <<<<"read", a>>, notes>>, <<facts>>)>>),
   File1(<<Entry(broker, <<notes>>, <<>>), Entry(broker, <<capture>>, <<>>)>>),
   File1(<<Entry(broker, <<capture>>, <<>>), Entry("cli", <<notes>>, <<>>)>>),
   File1(<<Entry(broker, <<capture, capture>>, <<>>)>>),
   File1(<<Entry(other, <<facts>>, <<>>), Entry(broker, <<<<"write", "raw">>>>, <<>>)>>),
   File1(<<Entry(broker, <<capture>>, None)>>),
   Json(2, FALSE, <<Entry(broker, <<capture>>, <<>>)>>),
   Json(1, TRUE, <<Entry(broker, <<capture>>, <<>>)>>)}

MCScope ==
  Grantable
    \cup {<<"write", "raw">>, <<"delete", "notes">>, <<"delete", "notes", a>>,
          <<"read", "secure_refs">>, <<"read", a>>, <<"read", "notes", a, a>>}
=============================================================================
