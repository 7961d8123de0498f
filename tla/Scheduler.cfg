CONSTANTS
  Clients = {"c"}
  Guests = {"g"}
  Addrs = 2
  Chunks = 2
  Calls = 4
  Careless = {}
  Messages = 2
  UdpCalls = 5
  UdpCareless = {}
  Count = 2
  Tasks = {t1}
  Workers = {w1}
  Fetches = {f1}
  Parents = {p1}
  Handles = {h1}
  MaxRuns = 2
  Promises = {"own", "nap"}
  Naps = {"nap"}
  None = "none"
  Adopting = FALSE
  MaxAttached = 2
  MaxMicro = 3
SPECIFICATION MCSpec
CHECK_DEADLOCK FALSE
INVARIANTS TypeOK NoLostWakeup NoEarlyExit NetworkTypeOK SocketsOwnHandles InputIsHeard WorkIsCounted
PROPERTIES MicrotasksFirst ImplementsEventLoop EveryTaskRuns LoopReturns EveryReactionRuns RequestsAreAnswered
