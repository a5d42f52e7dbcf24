CONSTANTS
  u1 = u1
  s1 = s1
  NoCred = NoCred
  Never = Never
  Users = {u1}
  Steps = {s1}
  OwnerOf <- OneStep
  Delay = 1
  MinLife = 4
  Work = 1
  Lives = {5}
  Renewables = {0, 9}
  Mishaps = {"auksd", "kdc", "store", "signal"}
  MaxAdds = 1
  MaxMishaps = 1
  MaxTime = 8
SPECIFICATION RenewalSpec
INVARIANTS RepoFresh StepFresh
CHECK_DEADLOCK FALSE
