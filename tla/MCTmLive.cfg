SPECIFICATION FairSpec
CONSTANTS
  Request = req
  Workers = {w1}
  Timers = {tm}
  Cancelers = {ca}
  NoProc = NoProc
  MaxBranches = 2
  NInitial = 2
  LocalCodes = {}
  ReplyCodes = {180, 200}
  MaxReplies = 2
  Method = "INVITE"
  CancelMethods = {"fake", "retr"}
  RelayMode = 1
  FakedPrio = 0
  Noisy = TRUE
  FailureRoute = {}
  DnsFailover = FALSE
  FailoverCodes = {503}
  SendFails = FALSE
  MemFails = FALSE
PROPERTIES EndsOnWait CanceledIsAnswered
