SPECIFICATION CommandsSpec
CONSTANTS
  w1 = w1
  w2 = w2
  \* BearerFile
  Proc = {1, 2}
  Attempts = 2
  MaxFresh = 3
  MaxTouches = 2
  \* DeviceLogin
  MaxInterval = 60
  Offers <- MCOffers
  Bodies <- MCErrorBodies
  Granted <- MCGranted
  NoScope = NoScope
  Delays = {0, 7}
  Choice = "Read"
  \* Startup
  Machines <- MCMachines
  Files <- MCFiles
  \* HttpPool
  Signal = {"INT", "TERM"}
  Slot = {1, 2}
  MaxRespawns = 1
  MaxDeliveries = 2
  \* HttpRequests
  Arrivals <- MCArrivals
  Bearer = "right"
  BindHost = "served"
  ExtraHosts = {"known"}
  \* GraphCalls
  Worker = {w1, w2}
  Permits = 1
  MaxAttempts = 2
  MaxPages = 2
  MaxItems = 1
INVARIANTS BearersAgree DrainedIsAnswered OnlyVettedLoginsAreSaved CleanReportMeansServeStarts MessagesAreAnswered
INVARIANTS TypeOK PermitsAreConserved NoPermitIsIdle AllowanceStopsNoMutation OnlyGatewaysRepeat
PROPERTIES ImplementsAgreement SignalEndsServe WorkersAreReplaced PollsKeepTheInterval CallsEnd
CHECK_DEADLOCK FALSE
