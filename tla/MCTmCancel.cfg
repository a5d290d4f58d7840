SPECIFICATION Spec
CONSTANTS
  Request = req
  Workers = {w1}
  Timers = {tm}
  Cancelers = {ca}
  NoProc = NoProc
  MaxBranches = 2
  NInitial = 2
  LocalCodes = {486}
  ReplyCodes = {180, 200}
  MaxReplies = 3
  Method = "INVITE"
  CancelMethods = {"fake", "retr", "force"}
  RelayMode = 0
  FakedPrio = 0
  Noisy = FALSE
  FailureRoute = {}
  DnsFailover = FALSE
  FailoverCodes = {503}
  SendFails = FALSE
  MemFails = FALSE
INVARIANTS OneFinalReply CancelOwned NothingLeftRinging NotForgotten
PROPERTIES FinalStays
