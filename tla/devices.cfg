SPECIFICATION Spec
CONSTANTS
  Transfers <- SmallTransfers
  PeripheralClks <- Clocks
  ClockFrequency <- Rates
  Children = 2
  LedRounds = 1
  Programs = {p1, p2, p3}
  MaxRounds = 2
  PageSize = 2
  SectorPages = 2
  Sectors = 2
  Boot = 4
  MsgSize = 3
  MaxMsg = 3
  ReadLens = {1, 3}
  Polls = 3
  SpiFaults = TRUE
  Letters = 3
  EchoSizes = 2
  Iterations = 7
  MaxQueue = 2
  Chars <- TypedChars
  MaxLine = 4
  HistoryLen = 5
  MaxArgc = 2
  FrameWidth = 8
  FrameHeight = 10
  TitleHigh = 6
  Glyph = 2
  Font <- SmallFont
  Places <- SomePlaces
  Printed = {0, 1}
  MaxIoctls = 4
INVARIANT SuccessIsComplete
INVARIANT BusIsReleased
INVARIANT EventsFitFrame
INVARIANT GpioClean
INVARIANT ApbPinned
 
INVARIANT EchoPass
INVARIANT CliCorrect
INVARIANT OverlayCorrect
CHECK_DEADLOCK FALSE
