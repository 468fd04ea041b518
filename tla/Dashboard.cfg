\* Two requests with two proposals, before and after a restart.
SPECIFICATION FairServerSpec
CONSTANTS
  Request = {r1, r2}
  Proposal = {x, y}
  Invalid = Invalid
  Nothing = Nothing
  MaxStarts = 2
  TmpFile = {f1, f2}
CHECK_DEADLOCK FALSE
INVARIANTS EndsClean WritesTrue
PROPERTIES AllAnswered
