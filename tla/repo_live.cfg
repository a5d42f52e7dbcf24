CONSTANTS
  p1 = p1
  p2 = p2
  NoAccount = NoAccount
  NoCred = NoCred
  Partial = Partial
  Unknown = Unknown
  RootUid = 0
  Principals = {p1, p2}
  Uids = {0}
  Account <- SharedAccount
  EndTimes = {1, 2}
  RenewTills = {0, 1, 2}
  FaultSets = {{"crash"}, {"unlink"}}
  MaxTime = 3
  MaxRestarts = 1
SPECIFICATION FairRepoSpec
PROPERTIES EventuallyCleaned ImplementsStore
