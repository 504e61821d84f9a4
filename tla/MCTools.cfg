SPECIFICATION AllSpec
CONSTANTS
  Chars = {"i", " "}
  Space = " "
  Width = 3
  MaxRows = 3
  MaxLen = 6
  EDIT_ROW = 4
  Typed = {"i", "DELETE"}
  Glyphs = {"o", "p"}
  MaxItems = 3
  MaxLines = 2
INVARIANTS OutputKept TextsRead ImagesJudged ModelsExact
CHECK_DEADLOCK FALSE
