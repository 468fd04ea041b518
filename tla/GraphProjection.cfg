SPECIFICATION Spec
CONSTANTS
  Proc = {p1, p2}
  NoProc = NoProc
  NumNotes = 3
  NoNote = NoNote
  NoteChoices <- Choices
  Vaults <- SomeVaults
  MaxEdits = 1
  MaxChanges = 2
SYMMETRY Symmetric
INVARIANTS GraphSound
PROPERTIES RebuildExact
