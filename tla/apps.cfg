SPECIFICATION Spec
CONSTANTS
  Chips <- AllChips
  Binnings = {0, 1, 2, 3}
  MaxDrops = 1
  QuietLoad = TRUE
  Typed = {0, 3}
  MaxVideo = 2
  AutoVideo = 1
  FrameRate = 2
  TitleDelay = 1
  MaxKeys = 1
  Enums = {2}
  Segments = 2
  UdpLoss = TRUE
  MaxLines = 4
  MaxThreads = 3
  MaxLights = 1
  MaxScene = 2
INVARIANT VideoWhole
PROPERTY WholeWrites
PROPERTY AppServes
PROPERTY SocketsFinish
PROPERTY RenderedOnce
CHECK_DEADLOCK FALSE
