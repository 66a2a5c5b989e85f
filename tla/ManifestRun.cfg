SPECIFICATION Spec
CONSTANTS
  HookLists <- MCHookLists
  EnvVars = {"host", "token"}
  Values = {"a", "b"}
  Unset = Unset
  Requests <- MCRequests
INVARIANTS EnvScoped AuditTruthful
PROPERTIES HookOrder RunsEnd
CHECK_DEADLOCK FALSE
