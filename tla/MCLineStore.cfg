\* Nested runs, CATCH at the console, BREAK; no text is overwritten before it is read.
SPECIFICATION Spec
CONSTANTS
  EDIT_MAX_LEN = 3
  StoreCells = 4
  Tapes <- SavedTexts
  EditedWord = "typed"
  MaxRuns = 3
  CatchIn = {"line"}
  Clobber = {}
  Shielded = {"edit"}
INVARIANTS SessionClosed SourceIntact
PROPERTIES TrimTakesOwnLine AboveKept
