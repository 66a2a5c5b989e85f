------------------------------ MODULE ReplaceLoad -------------------------------
(***************************************************************************)
(* run_with_replace_protection (dlt_utils/runners/common.py) with the       *)
(* ClickHouse helpers it calls (dlt_utils/clickhouse_helpers.py): how a     *)
(* runner loads its source. pipeline.run is dlt, external: a load package   *)
(* that an earlier call left pending is loaded, and nothing else; if there  *)
(* is none, the source is. It raises after it has loaded some of the tables *)
(* or none. A process makes one call of run_with_replace_protection; it may *)
(* be killed anywhere, and the next run finds what it left behind.          *)
(***************************************************************************)
EXTENDS Naturals, FiniteSets

CONSTANTS
  Tables,       \* the tables of the source
  Foreign,      \* tables that other pipelines load into the same dataset
  Temps,        \* the temporary tables that dlt may leave in it
  StagingNamed, \* the tables with "staging" in their name
  MainOf,       \* MainOf[u]: the tables u would be a staging table of
  Dispositions, \* write dispositions of the runs
  Expectations, \* what get_expected_table_names makes of the manifests
  SameNames     \* the check and the destination compose table names alike

ASSUME LoadAssumption ==
  /\ Tables \cap Foreign = {} /\ Temps \cap (Tables \cup Foreign) = {}
  /\ Temps \subseteq StagingNamed /\ StagingNamed \subseteq Temps \cup Foreign
  /\ MainOf \in [StagingNamed -> SUBSET (Tables \cup Foreign)]
  /\ Dispositions \subseteq {"replace", "append"}
  /\ Expectations \subseteq SUBSET Tables
  /\ SameNames \in BOOLEAN

VARIABLES
  pc,           \* where run_with_replace_protection is
  disposition,  \* its arguments
  expected,
  checked,      \* the check of this run has seen the destination
  exists,       \* tables of the dataset
  old,          \* tables with rows of earlier runs
  new,          \* how many times a table holds the rows of this run's source
  pending,      \* the load package in the working directory
  stale,        \* what the cleanup of this run left: a package of an earlier one
  ended         \* how the last run ended

call == <<disposition, expected>>
destination == <<exists, old, new, pending>>
vars == <<pc, call, checked, destination, stale, ended>>

Stages == {"idle", "clean", "check", "create", "load", "clean_again", "append", "reload"}

(* A package: its disposition, whether the rows are this run's, the tables  *)
(* that it still has to load.                                               *)
Packages == [how : {"append", "replace"}, own : BOOLEAN, left : SUBSET Tables]
NoPackage == [how |-> "none", own |-> FALSE, left |-> {}]

(* The types of all variables; a run of another disposition than replace    *)
(* only loads.                                                              *)
TypeOK ==
  /\ pc \in Stages
  /\ disposition \in Dispositions
  /\ expected \in Expectations
  /\ checked \in BOOLEAN
  /\ exists \subseteq Tables \cup Foreign \cup Temps
  /\ old \subseteq exists \cap (Tables \cup Foreign)
  /\ new \in [Tables -> 0..3]
  /\ \A t \in Tables : new[t] > 0 => t \in exists
  /\ pending \in Packages \cup {NoPackage}
  /\ stale \in {"none", "pending", "loaded"}
  /\ ended \in {"none", "returned", "raised", "killed"}
  /\ disposition # "replace" => pc \in {"idle", "load"}

Init ==
  /\ pc = "idle"
  /\ disposition \in Dispositions /\ expected \in Expectations /\ checked = FALSE
  /\ exists \in {Foreign, Tables \cup Foreign} /\ old = exists
  /\ new = [t \in Tables |-> 0] /\ pending = NoPackage /\ stale = "none"
  /\ ended = "none"

End(how) == pc' = "idle" /\ ended' = how

(* A run begins, with rows of its own to load.                              *)
Start ==
  /\ pc = "idle"
  /\ disposition' \in Dispositions /\ expected' \in Expectations
  /\ pc' = IF disposition' = "replace" THEN "clean" ELSE "load"
  /\ checked' = FALSE
  /\ old' = old \cup {t \in Tables : new[t] > 0}
  /\ new' = [t \in Tables |-> 0]
  /\ pending' = [pending EXCEPT !.own = FALSE] /\ stale' = "none"
  /\ UNCHANGED <<exists, ended>>

-------------------------------------------------------------------------------
(* Every table whose name contains "staging", if none of the main tables    *)
(* its name may stand for is there.                                         *)
Orphans == {u \in StagingNamed \cap exists : MainOf[u] \cap exists = {}}

(* drop_pending_packages, cleanup_staging_tables: each may fail, the second *)
(* table by table, or find no client; all of it is only logged.             *)
Cleanup ==
  /\ pending' \in {NoPackage, pending}
  /\ \E U \in SUBSET Orphans : exists' = exists \ U /\ old' = old \ U
  /\ UNCHANGED new

(* get_clickhouse_client raises when the port in os.environ is no number;   *)
(* a run that got past its first cleanup does not see this.                 *)
ClientRaises == pending' \in {NoPackage, pending} /\ UNCHANGED <<exists, old, new>>

Clean ==
  /\ pc = "clean"
  /\ \/ Cleanup /\ pc' = "check" /\ UNCHANGED ended
     \/ ClientRaises /\ End("raised")
  /\ stale' = IF pending' = NoPackage THEN "none" ELSE "pending"
  /\ UNCHANGED <<call, checked>>

(* check_tables_exist. Without an answer all tables count as existing, and  *)
(* nothing is asked when no table is expected.                              *)
Seen == IF SameNames THEN exists ELSE {}
Missing == expected \ Seen

Check ==
  /\ pc = "check"
  /\ \/ pc' = "load" /\ checked' = FALSE
     \/ /\ expected # {}
        /\ checked' = TRUE
        /\ pc' = IF Missing # {} THEN "create" ELSE "load"
  /\ UNCHANGED <<call, destination, stale, ended>>

-------------------------------------------------------------------------------
(* External: what pipeline.run loads is the package that is pending, with   *)
(* the disposition it was made for; only without one, the source.           *)
Job(how) == IF pending # NoPackage THEN pending ELSE [how |-> how, own |-> TRUE, left |-> Tables]

(* External: of the package p it has loaded the tables in L; those in C it  *)
(* has created or, for a replace, emptied; temporary tables may be left.    *)
Loaded(L, C, p) ==
  /\ \E T \in SUBSET Temps : exists' = exists \cup C \cup T
  /\ old' = (IF p.how = "replace" THEN old \ C ELSE old) \cup (IF p.own THEN {} ELSE L)
  /\ new' = [t \in Tables |->
       LET kept == IF t \in C /\ p.how = "replace" THEN 0 ELSE new[t]
       IN  IF t \in L /\ p.own THEN kept + 1 ELSE kept]

RunSucceeds(how) ==
  /\ Loaded(Job(how).left, Job(how).left, Job(how))
  /\ pending' = NoPackage

(* What is not loaded yet stays pending, unless dlt gave the package up or   *)
(* never made it.                                                           *)
RunRaises(how) ==
  \E C \in SUBSET Job(how).left : \E L \in SUBSET C :
    /\ Loaded(L, C, Job(how))
    /\ pending' \in {NoPackage, [Job(how) EXCEPT !.left = @ \ L]}

(* A load that succeeds has taken what was left of an earlier run.          *)
TakenUp == stale' = IF stale = "none" THEN "none" ELSE "loaded"

(* The append that creates missing tables; what it raises is raised again.  *)
Create ==
  /\ pc = "create"
  /\ \/ RunSucceeds("append") /\ TakenUp /\ pc' = "load" /\ UNCHANGED ended
     \/ RunRaises("append") /\ End("raised") /\ UNCHANGED stale
  /\ UNCHANGED <<call, checked>>

(* Errors whose text has "does not exist" or "pending packages" in it; the  *)
(* latter needs a package that is pending.                                  *)
Errors == {"does_not_exist", "other"} \cup (IF pending # NoPackage THEN {"pending_packages"} ELSE {})
(* Fault: the recovery is not limited to replace.                           *)
RecoversAny(error) == error \in {"does_not_exist", "pending_packages"}

Recovers(error) == error \in {"does_not_exist", "pending_packages"} /\ disposition = "replace"

Load ==
  /\ pc = "load"
  /\ \/ RunSucceeds(disposition) /\ End("returned")
     \/ \E error \in Errors :
          /\ RunRaises(disposition)
          /\ IF Recovers(error) THEN pc' = "clean_again" /\ UNCHANGED ended ELSE End("raised")
  /\ UNCHANGED <<call, checked, stale>>

CleanAgain ==
  /\ pc = "clean_again" /\ Cleanup
  /\ pc' = "append"
  /\ UNCHANGED <<call, checked, stale, ended>>

(* Fault: the recovery stops after its first step.                          *)
AppendAgainOnly ==
  /\ pc = "append"
  /\ \/ RunSucceeds("append") /\ TakenUp /\ End("returned")
     \/ RunRaises("append") /\ End("raised") /\ UNCHANGED stale
  /\ UNCHANGED <<call, checked>>

AppendAgain ==
  /\ pc = "append"
  /\ \/ RunSucceeds("append") /\ TakenUp /\ pc' = "reload" /\ UNCHANGED ended
     \/ RunRaises("append") /\ End("raised") /\ UNCHANGED stale
  /\ UNCHANGED <<call, checked>>

(* Fault: the recovery is repeated until it succeeds.                       *)
ReloadForever ==
  /\ pc = "reload"
  /\ \/ RunSucceeds("replace") /\ End("returned")
     \/ RunRaises("replace") /\ pc' = "clean_again" /\ UNCHANGED ended
  /\ UNCHANGED <<call, checked, stale>>

Reload ==
  /\ pc = "reload"
  /\ \/ RunSucceeds("replace") /\ End("returned")
     \/ RunRaises("replace") /\ End("raised")
  /\ UNCHANGED <<call, checked, stale>>

(* The process dies, between two calls or (RunRaises) inside pipeline.run.  *)
Killed ==
  /\ pc # "idle"
  /\ \/ UNCHANGED destination
     \/ pc \in {"create", "append"} /\ RunRaises("append")
     \/ pc = "load" /\ RunRaises(disposition)
     \/ pc = "reload" /\ RunRaises("replace")
  /\ End("killed")
  /\ UNCHANGED <<call, checked, stale>>

Work ==
  \/ Clean \/ Check \/ Create \/ Load
  \/ CleanAgain \/ AppendAgain \/ Reload

Next == Start \/ Work \/ Killed

(* A run that is not killed is executed.                                    *)
Spec == Init /\ [][Next]_vars /\ WF_vars(Work)

-------------------------------------------------------------------------------
(* A replace that returned has replaced: whatever failed and was repeated   *)
(* on the way, and whatever earlier runs left, each table holds the rows of *)
(* this run once and no others. But for one case: drop_pending_packages     *)
(* failed, which is only logged, no table was missing, and the replace      *)
(* loaded the package of an earlier run instead of the source.              *)
ReplaceExact ==
  pc = "idle" /\ ended = "returned" /\ disposition = "replace" /\ stale # "pending" =>
    /\ old \cap Tables = {}
    /\ \A t \in Tables : new[t] = 1

(* A load that only adds rows is never repeated, whatever it raised: it     *)
(* adds each row at most once (common.py:94, the retry is for replace).     *)
AppendOnce == disposition # "replace" => \A t \in Tables : new[t] <= 1

(* "Auto-create tables with append if missing" (common.py:40): rows are     *)
(* appended before the replace only when an expected table is missing.      *)
AppendOnlyIfMissing == pc = "create" => ~(expected \subseteq exists)

(* ... and a replace starts with all expected tables there, unless the      *)
(* destination could not be asked or the append loaded an earlier package.  *)
CreatedBeforeReplace ==
  pc = "load" /\ checked /\ disposition = "replace" /\ stale = "none" => expected \subseteq exists

(* Every run ends, the recovery included: it happens at most once.          *)
RunsEnd == pc # "idle" ~> pc = "idle"
===============================================================================
