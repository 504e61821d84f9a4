SPECIFICATION AllSpec
CONSTANTS
  Keys = {"space", "a"}
  Space = "space"
  KBD_DEBOUNCE_TICKS = 3
  KBD_REPDEL = 3
  KBD_REPPER = 2
  DictCap = 6
  TextCap = 5
  Identity = 100
  Cold = 0
  Attempts = 4
  Scenes <- FullScenes
  Lines = 2
  Seeds <- MCSeeds
  Numbers = {16385}
  HighBytes = {255}
  MemAddrs <- MCMem
  Script <- MCScript
  MaxSteps = 3
  HalfWrites = FALSE
  Parts = {"tape"}
INVARIANTS VerifyKeepsText
CHECK_DEADLOCK FALSE
