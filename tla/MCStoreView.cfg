SPECIFICATION Spec
CONSTANTS
  Chars = {"a", "s"}
  Space = "s"
  Width = 2
  MaxRows = 2
  MaxLen = 4
  Typed = {"a"}
  CR = "CR"
  CRM = "CRM"
  Cap = 5
  ScreenRows = 3
  Texts <- MCTexts
INVARIANTS ScreenTrue
PROPERTIES ImplementsView
CHECK_DEADLOCK FALSE
