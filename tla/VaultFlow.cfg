SPECIFICATION Spec
CONSTANTS
  Proc = {p1, p2}
  MaxNotes = 2
  MaxRefs = 1
  Media = {m1}
  Text = {t1}
  Public = {url}
  Private = {path}
  Fact = {f1}
  Ghost = Ghost
  Link = Link
  None = None
SYMMETRY Symmetric
INVARIANTS EventsGrounded SourcesFound IngestTruth OncePerMedia
