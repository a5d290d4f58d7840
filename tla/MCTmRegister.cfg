SPECIFICATION Spec
CONSTANTS
  Request = req
  Workers = {w1, w2}
  Timers = {tm}
  Cancelers = {}
  NoProc = NoProc
  MaxBranches = 3
  NInitial = 2
  LocalCodes = {302}
  ReplyCodes = {200, 401, 503}
  MaxReplies = 3
  Method = "REGISTER"
  CancelMethods = {"retr"}
  RelayMode = 1
  FakedPrio = 0
  Noisy = TRUE
  FailureRoute = {"reply", "fork", "drop"}
  DnsFailover = TRUE
  FailoverCodes = {503}
  SendFails = TRUE
  MemFails = TRUE
INVARIANTS TypeOK OneFinalReply
PROPERTIES FinalStays BestIsRelayed
CHECK_DEADLOCK FALSE
SYMMETRY WorkerSymmetry
