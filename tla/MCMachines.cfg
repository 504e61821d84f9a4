\* Two keys and CAPS SHIFT against a key wait; tapes of two files; programs of three instructions.
SPECIFICATION AllSpec
CONSTANTS
  Keys = {"space", "a"}
  Space = "space"
  KBD_DEBOUNCE_TICKS = 3
  KBD_REPDEL = 3
  KBD_REPPER = 2
  DictCap = 6
  TextCap = 5
  Identity = 100
  Cold = 0
  Attempts = 4
  Scenes <- McScenes
  Lines = 2
  Seeds <- MCSeeds
  Numbers = {16385}
  HighBytes = {255}
  MemAddrs <- MCMem
  Script <- MCScript
  MaxSteps = 3
  HalfWrites = FALSE
  Parts = {"keyboard", "tape", "simulator"}
INVARIANTS TypeOK WaitingIsUnread Promise CasesPass ReplayFollows
PROPERTIES OnlySteadyKeys HeldKeyEndsWait TapeWordEnds SimulatesMachine
CHECK_DEADLOCK FALSE
