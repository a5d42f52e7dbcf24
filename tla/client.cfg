CONSTANTS
  Clients = {c1}
  Ops = {"add", "get"}
  Retries = 2
  Faults = {"hang", "down", "network", "kerberos", "garbage"}
  MaxCalls = 2
SPECIFICATION FairLibsSpec
INVARIANTS ClientInv Expected
PROPERTIES ImplementsRpc Returns
CHECK_DEADLOCK FALSE
