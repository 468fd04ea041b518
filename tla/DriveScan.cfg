\* Two files, two contents, every kind of flag, and a scanner that keeps running.
SPECIFICATION FairSpec
CONSTANTS
  Name = {n1, n2}
  Media = {m1, m2}
  None = None
  Flags <- AllFlags
  MaxChanges = 3
INVARIANTS SummaryTrue
PROPERTIES SettledStays DropsIngested
