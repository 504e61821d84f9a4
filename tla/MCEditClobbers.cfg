\* EDIT and LOAD-TEXT anywhere in a line or a text.
SPECIFICATION Spec
CONSTANTS
  EDIT_MAX_LEN = 3
  StoreCells = 4
  Tapes <- SavedTexts
  EditedWord = "edited"
  MaxRuns = 2
  CatchIn = {"line"}
  Clobber = {"line"}
  Shielded = {"edit"}
INVARIANTS SourceIntact
