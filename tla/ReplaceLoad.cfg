SPECIFICATION Spec
CONSTANTS
  Tables = {"orders", "items"}
  Foreign = {"users", "users_staging"}
  Temps = {"staging_orders"}
  StagingNamed = {"staging_orders", "users_staging"}
  MainOf <- MCMainOf
  Dispositions = {"replace", "append"}
  Expectations <- MCExpectations
  SameNames = TRUE
INVARIANTS ReplaceExact AppendOnce
PROPERTY RunsEnd
