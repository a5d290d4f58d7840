SPECIFICATION Spec
CONSTANTS
  Request = req
  Workers = {w1, w2}
  Timers = {tm}
  Cancelers = {}
  NoProc = NoProc
  MaxBranches = 2
  NInitial = 2
  LocalCodes = {}
  ReplyCodes = {180, 200, 404, 603}
  MaxReplies = 3
  Method = "INVITE"
  CancelMethods = {"retr"}
  RelayMode = 1
  FakedPrio = 0
  Noisy = TRUE
  FailureRoute = {}
  DnsFailover = FALSE
  FailoverCodes = {503}
  SendFails = FALSE
  MemFails = TRUE
INVARIANTS CancelOwned
