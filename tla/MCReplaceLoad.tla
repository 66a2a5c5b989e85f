----------------------------- MODULE MCReplaceLoad -----------------------------
(* A table of another pipeline, and a table like the one dlt would leave.    *)
EXTENDS ReplaceLoad

MCExpectations == SUBSET Tables
MCMainOf == [u \in StagingNamed |->
  CASE u = "staging_orders" -> {"orders"} [] u = "users_staging" -> {"users"} [] OTHER -> {}]
===============================================================================
