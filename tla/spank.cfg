SPECIFICATION FairStepSpec
CONSTANTS
  Plugins = {"c", "rs"}
  NTasks = 2
  Confs <- MCConfs
  Options = {"none", "yes", "no", "done"}
  ShellEnvs = {"unset", "yes", "other"}
  FaultSets <- OneFault
INVARIANT PrivilegesRestored NothingLeftBehind Honoured NameIsDefined RenewsCacheOfJob
PROPERTY FlushedFirst RenewerFirst StepEnds
CHECK_DEADLOCK FALSE
