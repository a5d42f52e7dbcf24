CONSTANTS
  p1 = p1
  p2 = p2
  p3 = p3
  NoAccount = NoAccount
  NoCred = NoCred
  Partial = Partial
  Unknown = Unknown
  NoClient = NoClient
  Principals = {p1, p2, p3}
  Clients = {p1, p2, p3}
  Uids = {0, 1}
  RootUid = 0
  Account <- TwoAccounts
  AclFiles <- MCAclFiles
  Workers = {w1, w2}
  EndTimes = {1}
  RenewTills = {0}
  FaultSets = {{"crash"}, {"oom", "unlink"}}
  MaxTime = 2
  MaxRestarts = 1
SPECIFICATION ReqSpec
SYMMETRY WorkerSymmetry
INVARIANTS RepliesAuthorised OneInRepository
PROPERTIES CleanOnlyExpired RemovesOwn
CHECK_DEADLOCK FALSE
