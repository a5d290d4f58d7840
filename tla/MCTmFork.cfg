SPECIFICATION Spec
CONSTANTS
  Request = req
  Workers = {w1, w2}
  Timers = {tm}
  Cancelers = {}
  NoProc = NoProc
  MaxBranches = 3
  NInitial = 2
  LocalCodes = {302}
  ReplyCodes = {180, 200, 404, 603}
  MaxReplies = 3
  Method = "INVITE"
  CancelMethods = {"retr"}
  RelayMode = 1
  FakedPrio = 0
  Noisy = TRUE
  FailureRoute = {"reply", "fork", "drop", "dropfork"}
  DnsFailover = FALSE
  FailoverCodes = {503}
  SendFails = FALSE
  MemFails = FALSE
INVARIANTS RelayLocked OneFinalReply CancelOwned NothingLeftRinging NotForgotten NegativeIsRetransmitted

SYMMETRY WorkerSymmetry
