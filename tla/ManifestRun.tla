------------------------------ MODULE ManifestRun ------------------------------
(***************************************************************************)
(* ManifestExecutor.run_manifest (dltaf/services/execution/executor.py)     *)
(* with HookPipeline (dltaf/extensions/hooks/pipeline.py), the replace      *)
(* policy and audit hooks, the planner's dry run and temporary_environ. One *)
(* process executes one run after the other; the process environment, the   *)
(* audit table and the destination outlive a run.                           *)
(***************************************************************************)
EXTENDS Naturals, Sequences, FiniteSets

CONSTANTS
  HookLists,   \* the hook selections of the manifests
  Requests,    \* the requests the process gets
  EnvVars,     \* variables the connections may set
  Values,      \* their values
  Unset        \* the variable is not in os.environ

(* A request: the mode flags of the command line; dry_run_strict; the       *)
(* write disposition of the run; what the replace policy is configured to   *)
(* do with this pipeline and dataset ("off": disabled, bypassed, allowed or *)
(* not a production dataset); and what the offline and online checks would  *)
(* find, were they run. A selection names a hook once, for                  *)
(* select_named_extensions drops repetitions (extensions/base/common.py).   *)
Flags == {"plan", "dry_run", "dry_run_online"}
Request ==
  [flags : SUBSET Flags, strict : BOOLEAN, validateOnly : BOOLEAN,
   disposition : {"replace", "append"}, policy : {"off", "warn", "deny"}, healthy : BOOLEAN]

ASSUME RunAssumption ==
  /\ Unset \notin Values
  /\ Requests \subseteq Request
  /\ \A l \in HookLists : l \in Seq(STRING) /\ \A i, j \in DOMAIN l : l[i] = l[j] => i = j

VARIABLES
  req,         \* the request of the current or last run
  stage,       \* where run_manifest is
  environ,     \* os.environ, the EnvVars part of it
  saved,       \* what temporary_environ will put back
  hooks,       \* the hooks of the run
  done,        \* hooks entered and not told how the run ended
  status,      \* "none", the status of the RunResult, or "failed"
  home,        \* os.environ as the process started: never changes
  leaked,      \* variables a loop of temporary_environ was cut off over
  run          \* what the current or last run did

control == <<req, stage, hooks, done, status>>
vars == <<control, environ, saved, home, leaked, run>>

Stages == {"idle", "begun", "pre", "post", "on_error"}
Statuses == {"none", "planned", "dry_run_online", "dry_run", "success", "failed"}
Ends == {"none", "active", "returned", "raised", "killed"}
NoEnv == [v \in {} |-> Unset]

(* A run: whether the runner was started, whether it returned its load      *)
(* info, the statuses of its audit rows, and how the run ended.             *)
RunRecord == [started : BOOLEAN, loaded : BOOLEAN, rows : Seq(Statuses), end : Ends]

(* The types of all variables, and that only an active run has a scope.     *)
TypeOK ==
  /\ req \in Requests
  /\ stage \in Stages
  /\ environ \in [EnvVars -> Values \cup {Unset}]
  /\ home \in [EnvVars -> Values \cup {Unset}]
  /\ saved \in UNION {[S -> Values \cup {Unset}] : S \in SUBSET EnvVars}
  /\ leaked \subseteq EnvVars
  /\ hooks \in HookLists
  /\ done \in 0..Len(hooks)
  /\ status \in Statuses
  /\ run \in RunRecord
  /\ stage \in {"idle", "begun"} => saved = NoEnv /\ done = 0 /\ status = "none"
  /\ run.end = "active" <=> stage # "idle"

NewRun == [started |-> FALSE, loaded |-> FALSE, rows |-> <<>>, end |-> "active"]

Init ==
  /\ req \in Requests
  /\ stage = "idle"
  /\ home \in [EnvVars -> Values \cup {Unset}]
  /\ environ = home
  /\ saved = NoEnv
  /\ leaked = {}
  /\ hooks \in HookLists
  /\ done = 0
  /\ status = "none"
  /\ run = [NewRun EXCEPT !.end = "none"]

-------------------------------------------------------------------------------
(* ManifestExecutionRequest.validate                                        *)
ValidRequest(q) ==
  /\ Cardinality(q.flags) <= 1
  /\ q.strict => q.flags \cap {"dry_run", "dry_run_online"} # {}

Begin ==
  /\ stage = "idle"
  /\ req' \in Requests
  /\ stage' = "begun"
  /\ hooks' \in HookLists
  /\ run' = NewRun
  /\ UNCHANGED <<environ, saved, done, status, home, leaked>>

(* Anything before the hooks run raises: an invalid request, the manifest,  *)
(* its validation, a secret that cannot be resolved, an unknown hook. The   *)
(* run leaves no trace.                                                     *)
RaiseEarly ==
  /\ stage = "begun"
  /\ stage' = "idle"
  /\ run' = [run EXCEPT !.end = "raised"]
  /\ UNCHANGED <<req, hooks, done, status, environ, saved, home, leaked>>

ReturnValidated ==
  /\ stage = "begun" /\ ValidRequest(req) /\ req.validateOnly
  /\ stage' = "idle"
  /\ run' = [run EXCEPT !.end = "returned"]
  /\ UNCHANGED <<req, hooks, done, status, environ, saved, home, leaked>>

(* The secrets are resolved and temporary_environ is entered: each variable *)
(* of the connections is remembered and set, one after the other.           *)
EnterScope ==
  /\ stage = "begun" /\ ValidRequest(req) /\ ~req.validateOnly
  /\ stage' = "pre"
  /\ \E S \in SUBSET EnvVars : \E values \in [S -> Values] :
       /\ saved' = [v \in S |-> environ[v]]
       /\ environ' = [v \in EnvVars |-> IF v \in S THEN values[v] ELSE environ[v]]
  /\ UNCHANGED <<req, hooks, done, status, home, leaked, run>>

(* The loop that sets them runs before the try: when os.environ refuses a   *)
(* key or a value (ValueError), or an interrupt comes, no finally puts back *)
(* the variables set so far. The run ends before its hooks.                 *)
EnterCut ==
  /\ stage = "begun" /\ ValidRequest(req) /\ ~req.validateOnly
  /\ stage' = "idle"
  /\ \E D \in SUBSET EnvVars : \E values \in [D -> Values] :
       /\ environ' = [v \in EnvVars |-> IF v \in D THEN values[v] ELSE environ[v]]
       /\ leaked' = leaked \cup D
  /\ \E end \in {"raised", "killed"} : run' = [run EXCEPT !.end = end]
  /\ UNCHANGED <<req, hooks, done, status, saved, home>>

-------------------------------------------------------------------------------
(* ReplacePolicyHook.pre_run raises.                                        *)
PolicyRaises(q) == q.disposition = "replace" /\ q.policy = "deny"

(* _safe_call: whatever a hook raises is logged and forgotten, the policy's *)
(* refusal included, and the hook counts as executed.                       *)
PreRun ==
  /\ stage = "pre" /\ done < Len(hooks)
  /\ done' = done + 1
  /\ UNCHANGED <<req, stage, hooks, status, environ, saved, home, leaked, run>>

Planning(q) == q.flags # {}

(* The reports of execute_plan_or_dry_run are constants: no check is run.   *)
ReportsOk(q) == TRUE

StrictError(q) ==
  q.strict /\ q.flags \cap {"dry_run", "dry_run_online"} # {} /\ ~ReportsOk(q)

(* Fault: a dry run that went well counts as a success.                     *)
SuccessOrPlanned(q) == IF "plan" \in q.flags THEN "planned" ELSE "success"

SuccessStatus(q) ==
  CASE "plan" \in q.flags -> "planned"
    [] "dry_run_online" \in q.flags -> "dry_run_online"
    [] "dry_run" \in q.flags -> "dry_run"
    [] OTHER -> "success"

Succeed == stage' = "post" /\ status' = SuccessStatus(req)
Fail == stage' = "on_error" /\ status' = "failed"
AllEntered == stage = "pre" /\ done = Len(hooks)

(* fn() is execute_plan_or_dry_run                                          *)
Plan ==
  /\ AllEntered /\ Planning(req)
  /\ \/ ~StrictError(req) /\ Succeed
     \/ Fail
  /\ UNCHANGED <<req, hooks, done, environ, saved, home, leaked, run>>

(* fn() is runner.run, which returns its load info or raises               *)
RunLoad ==
  /\ AllEntered /\ ~Planning(req)
  /\ \/ Succeed /\ run' = [run EXCEPT !.started = TRUE, !.loaded = TRUE]
     \/ Fail /\ run' = [run EXCEPT !.started = TRUE]
  /\ UNCHANGED <<req, hooks, done, environ, saved, home, leaked>>

(* AuditRunHook._write_row: a row, or a warning.                            *)
Audit ==
  \/ run' = [run EXCEPT !.rows = Append(@, status)]
  \/ UNCHANGED run

(* Fault: only the hook that was entered last is told.                      *)
TellLastOnly ==
  /\ stage \in {"post", "on_error"} /\ done > 0
  /\ done' = 0
  /\ UNCHANGED <<req, stage, hooks, status, environ, saved, home, leaked, run>>

(* Fault: after an error the loop over the hooks does not advance.          *)
TellSuccessOnly ==
  /\ stage = "post" /\ done > 0
  /\ done' = done - 1
  /\ UNCHANGED <<req, stage, hooks, status, environ, saved, home, leaked, run>>

(* post_run or on_error of the entered hooks, the last one first            *)
Tell ==
  /\ stage \in {"post", "on_error"} /\ done > 0
  /\ done' = done - 1
  /\ IF hooks[done] = "audit_run" THEN Audit ELSE UNCHANGED run
  /\ UNCHANGED <<req, stage, hooks, status, environ, saved, home, leaked>>

(* Fault: a variable that was not set before is not removed.                *)
RestoreSetOnly ==
  /\ environ' = [v \in EnvVars |->
       IF v \in DOMAIN saved /\ saved[v] # Unset THEN saved[v] ELSE environ[v]]
  /\ saved' = NoEnv
  /\ UNCHANGED leaked

(* The finally clause of temporary_environ                                  *)
Restore ==
  /\ environ' = [v \in EnvVars |-> IF v \in DOMAIN saved THEN saved[v] ELSE environ[v]]
  /\ saved' = NoEnv
  /\ UNCHANGED leaked

(* An interrupt in the loop of the finally clause: only D is put back.      *)
RestoreCut ==
  /\ \E D \in SUBSET DOMAIN saved :
       /\ environ' = [v \in EnvVars |-> IF v \in D THEN saved[v] ELSE environ[v]]
       /\ leaked' = leaked \cup (DOMAIN saved \ D)
  /\ saved' = NoEnv

LeaveScope(end) ==
  /\ stage' = "idle" /\ done' = 0 /\ status' = "none"
  /\ Restore \/ (end = "killed" /\ RestoreCut)
  /\ run' = [run EXCEPT !.end = end]
  /\ UNCHANGED <<req, hooks, home>>

Leave ==
  /\ done = 0
  /\ \/ stage = "post" /\ LeaveScope("returned")
     \/ stage = "on_error" /\ LeaveScope("raised")

(* KeyboardInterrupt or SystemExit, in a hook, in the runner or while the   *)
(* environment is put back: "except Exception" does not see it,             *)
(* temporary_environ does.                                                  *)
Interrupt ==
  \/ stage \in {"pre", "post", "on_error"} /\ LeaveScope("killed")
  \/ /\ AllEntered /\ ~Planning(req)
     /\ stage' = "idle" /\ done' = 0 /\ status' = "none"
     /\ Restore \/ RestoreCut
     /\ run' = [run EXCEPT !.started = TRUE, !.end = "killed"]
     /\ UNCHANGED <<req, hooks, home>>

Next ==
  \/ Begin \/ RaiseEarly \/ ReturnValidated \/ EnterScope \/ EnterCut
  \/ PreRun \/ Plan \/ RunLoad \/ Tell \/ Leave \/ Interrupt

Fairness ==
  WF_vars(EnterScope \/ EnterCut \/ ReturnValidated \/ RaiseEarly \/ PreRun \/ Plan \/ RunLoad \/ Tell \/ Leave)

Spec == Init /\ [][Next]_vars /\ Fairness

-------------------------------------------------------------------------------
(* Whatever way a run ends, and wherever it raised, the next run finds the  *)
(* environment of the process; in between, only the variables of its own    *)
(* connections differ from it (vault_env.py temporary_environ). It is so of *)
(* every variable but those a cut-off loop of temporary_environ went over,  *)
(* in this run or an earlier one: nothing puts them back any more.          *)
EnvScoped ==
  \A v \in EnvVars \ leaked :
    /\ stage \in {"idle", "begun"} => environ[v] = home[v]
    /\ v \notin DOMAIN saved => environ[v] = home[v]
    /\ v \in DOMAIN saved => saved[v] = home[v]

(* The audit table tells the truth: a run has at most one row; "success"    *)
(* means the runner returned, "failed" that it did not, any other status    *)
(* that nothing was loaded (audit_run.py, status in pipeline.py:29).        *)
AuditTruthful ==
  /\ Len(run.rows) <= 1
  /\ \A k \in DOMAIN run.rows :
       CASE run.rows[k] = "success" -> run.loaded /\ run.end # "raised"
         [] run.rows[k] = "failed" -> ~run.loaded /\ run.end # "returned"
         [] OTHER -> ~run.started /\ run.end # "raised"

(* "no side effects": a plan or a dry run never starts the runner, and a    *)
(* run that loaded was requested without a planning flag, even when the     *)
(* flags come in several at a time (executor.py:107).                       *)
DryRunsDoNotLoad == run.started => req.flags = {} /\ ~req.validateOnly

(* Hooks are told once, in reverse order, how the run they entered ended,   *)
(* and before it ends (pipeline.py run): the abstract protocol.             *)
Protocol == INSTANCE HookProtocol WITH
  Hooks <- UNION {{l[i] : i \in DOMAIN l} : l \in HookLists},
  entered <- SubSeq(hooks, 1, done),
  verdict <- CASE stage = "post" -> "succeeded" [] stage = "on_error" -> "failed" [] OTHER -> "none",
  ended <- run.end
HookOrder == Protocol!HookSpec

(* A run that began comes to an end.                                        *)
RunsEnd == (stage # "idle") ~> (stage = "idle")
===============================================================================
