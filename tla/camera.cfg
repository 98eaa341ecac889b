SPECIFICATION CamSpec
CONSTANTS
  c1 = c1
  Clients <- OneClient
  Endpoints <- AllEndpoints
  LastNum = 1
  ImagePerPage = 2
  FileSizes <- BlockCounts
  MaxOut = 2
  MaxFds = 3
  MaxPhotos = 3
INVARIANT NothingLeftOpen
INVARIANT PagesPartition
PROPERTY RequestsAnswered
CHECK_DEADLOCK FALSE
