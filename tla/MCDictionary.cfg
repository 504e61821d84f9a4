\* BREAK at every point of every word, caught or not.
SPECIFICATION AllSpec
CONSTANTS
  CEILING = 7
  Reserve = 3
  MaxBody = 2
  MaxData = 1
  Levels = 2
  Half = 4
  MostWords = 7
  MostFailed = 2
  Bounds <- MCBounds
  Numbers = {0, 1, 3, 7}
INVARIANTS TypeOK ChainSound BodiesApart HalfOnlyWhileOpen BelowLineStore CompiledAsMeant
PROPERTIES ErrorsKeepWords
