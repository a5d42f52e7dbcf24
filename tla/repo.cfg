CONSTANTS
  p1 = p1
  p2 = p2
  NoAccount = NoAccount
  NoCred = NoCred
  Partial = Partial
  Unknown = Unknown
  RootUid = 0
  Principals = {p1, p2}
  Uids = {0, 1}
  Account <- OwnAccounts
  EndTimes = {1, 2}
  RenewTills = {0}
  FaultSets = {{"unlink", "crash"}, {"unlink", "store", "crash"}, {"store", "crash"}, {"load", "crash"}, {"oom", "unlink"}}
  MaxTime = 2
  MaxRestarts = 2
SPECIFICATION RepoSpec
INVARIANTS RepoTypeOK Mirrored FilesCurrent PromiseKept
CHECK_DEADLOCK FALSE
