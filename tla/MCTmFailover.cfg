SPECIFICATION Spec
CONSTANTS
  Request = req
  Workers = {w1}
  Timers = {tm}
  Cancelers = {ca}
  NoProc = NoProc
  MaxBranches = 2
  NInitial = 1
  LocalCodes = {}
  ReplyCodes = {180, 200, 404, 603}
  MaxReplies = 3
  Method = "INVITE"
  CancelMethods = {"retr"}
  RelayMode = 1
  FakedPrio = 0
  Noisy = TRUE
  FailureRoute = {"fork"}
  DnsFailover = TRUE
  FailoverCodes = {503}
  SendFails = FALSE
  MemFails = FALSE
PROPERTIES NothingForwardedAfterCancel
