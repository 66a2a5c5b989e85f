---------------------------- MODULE ManifestProofs -----------------------------
(***************************************************************************)
(* Theorems of ManifestRun for every choice of hooks, requests and          *)
(* variables: what temporary_environ, the audit table and a planning run    *)
(* promise, and that the run implements the protocol of its hooks.          *)
(*                                                                         *)
(* Theorems of ManifestDoctor and SqlSource for every source a manifest can *)
(* have, whatever its keys and values: the translations of a SQL source (the *)
(* schema's, the normalizer's, the canonical layout, the execution manifest *)
(* and the doctor's fixes) keep the load that the manifest describes.       *)
(***************************************************************************)
EXTENDS ManifestRun, ManifestDoctor, SequenceTheorems, TLAPS

(* What is known of a run at each stage, and of a run that has ended.       *)
Course ==
  /\ stage \in {"pre", "post", "on_error"} => ~req.validateOnly
  /\ stage \in {"begun", "pre"} => status = "none" /\ run = NewRun
  /\ stage = "post" => /\ status = SuccessStatus(req)
                       /\ run.loaded <=> req.flags = {}
                       /\ run.started <=> req.flags = {}
  /\ stage = "on_error" => status = "failed" /\ ~run.loaded

(* An active run with an audit row has told its audit hook, so the row is   *)
(* the only one and carries the status of the run.                          *)
RowTold ==
  run.rows # <<>> /\ stage # "idle" =>
    /\ stage \in {"post", "on_error"}
    /\ run.rows = <<status>>
    /\ \E i \in DOMAIN hooks : i > done /\ hooks[i] = "audit_run"

IInv == TypeOK /\ EnvScoped /\ DryRunsDoNotLoad /\ Course /\ RowTold /\ AuditTruthful

-------------------------------------------------------------------------------
LEMMA InitInv == Init => IInv
<1> SUFFICES ASSUME Init PROVE IInv
  OBVIOUS
<1> USE DEF Init, NewRun
<1>1. TypeOK
  <2>1. hooks \in Seq(STRING) /\ Len(hooks) \in Nat
    BY RunAssumption
  <2>2. saved \in UNION {[S -> Values \cup {Unset}] : S \in SUBSET EnvVars}
    <3>1. saved \in [{} -> Values \cup {Unset}]
      BY DEF NoEnv
    <3> QED BY <3>1
  <2>3. run \in RunRecord
    <3>1. run = [started |-> FALSE, loaded |-> FALSE, rows |-> <<>>, end |-> "none"]
      OBVIOUS
    <3>2. <<>> \in Seq(Statuses)
      OBVIOUS
    <3> QED BY <3>1, <3>2 DEF RunRecord, Ends
  <2> QED BY <2>1, <2>2, <2>3 DEF TypeOK, Stages, Statuses
<1>2. EnvScoped
  BY DEF EnvScoped, NoEnv
<1>3. DryRunsDoNotLoad /\ Course
  BY DEF DryRunsDoNotLoad, Course
<1>4. RowTold /\ AuditTruthful
  BY DEF RowTold, AuditTruthful
<1> QED BY <1>1, <1>2, <1>3, <1>4 DEF IInv

(* What temporary_environ leaves behind is well typed, and but for the      *)
(* variables of a loop that was cut off it is the process environment.      *)
LEMMA RestoreHome ==
  ASSUME TypeOK, EnvScoped, Restore \/ RestoreCut
  PROVE  /\ environ' \in [EnvVars -> Values \cup {Unset}]
         /\ saved' = NoEnv
         /\ leaked' \subseteq EnvVars
         /\ \A v \in EnvVars \ leaked' : environ'[v] = home[v]
<1>t. /\ DOMAIN saved \subseteq EnvVars /\ leaked \subseteq EnvVars
      /\ \A v \in EnvVars : environ[v] \in Values \cup {Unset}
      /\ \A v \in DOMAIN saved : saved[v] \in Values \cup {Unset}
  BY DEF TypeOK
<1>1. CASE Restore
  BY <1>1, <1>t DEF EnvScoped, Restore
<1>2. CASE RestoreCut
  <2>1. PICK D \in SUBSET DOMAIN saved :
          /\ environ' = [v \in EnvVars |-> IF v \in D THEN saved[v] ELSE environ[v]]
          /\ leaked' = leaked \cup (DOMAIN saved \ D)
    BY <1>2 DEF RestoreCut
  <2>2. environ' \in [EnvVars -> Values \cup {Unset}]
    BY <1>t, <2>1
  <2>3. \A v \in EnvVars \ leaked' : environ'[v] = home[v]
    BY <1>t, <2>1 DEF EnvScoped
  <2> QED BY <1>2, <1>t, <2>1, <2>2, <2>3 DEF RestoreCut
<1> QED BY <1>1, <1>2

LEMMA NoEnvType == NoEnv \in UNION {[S -> Values \cup {Unset}] : S \in SUBSET EnvVars}
<1>1. NoEnv \in [{} -> Values \cup {Unset}]
  BY DEF NoEnv
<1> QED BY <1>1

(* Every step keeps the types.                                              *)
LEMMA TypeStep == IInv /\ [Next]_vars => TypeOK'
<1> SUFFICES ASSUME IInv, [Next]_vars PROVE TypeOK'
  OBVIOUS
<1>0. TypeOK /\ EnvScoped /\ Course
  BY DEF IInv
<1>h. hooks \in Seq(STRING) /\ Len(hooks) \in Nat /\ done \in Nat /\ done <= Len(hooks)
  BY <1>0, RunAssumption DEF TypeOK
<1>l. ASSUME NEW end \in {"returned", "raised", "killed"}, LeaveScope(end) PROVE TypeOK'
  <2>1. environ' \in [EnvVars -> Values \cup {Unset}] /\ saved' = NoEnv /\ leaked' \subseteq EnvVars
    BY <1>0, <1>l, RestoreHome DEF LeaveScope
  <2>2. run' \in RunRecord /\ run'.end # "active"
    BY <1>0, <1>l DEF TypeOK, LeaveScope, RunRecord, Ends
  <2> QED BY <1>0, <1>h, <1>l, <2>1, <2>2, NoEnvType DEF TypeOK, LeaveScope, Stages, Statuses
<1>1. CASE UNCHANGED vars
  BY <1>0, <1>1 DEF vars, control, TypeOK
<1>2. CASE Begin
  <2>1. run' \in RunRecord /\ run'.end = "active"
    BY <1>2 DEF Begin, NewRun, RunRecord, Ends
  <2>2. Len(hooks') \in Nat /\ done' = 0
    BY <1>0, <1>2, RunAssumption DEF Begin, TypeOK
  <2> QED BY <1>0, <1>2, <2>1, <2>2 DEF Begin, TypeOK, Stages
<1>3. CASE RaiseEarly \/ ReturnValidated
  <2>1. run' \in RunRecord /\ run'.end # "active"
    BY <1>0, <1>3 DEF TypeOK, RaiseEarly, ReturnValidated, RunRecord, Ends
  <2> QED BY <1>0, <1>3, <2>1 DEF RaiseEarly, ReturnValidated, TypeOK, Stages
<1>4. CASE EnterScope
  <2>a. PICK S \in SUBSET EnvVars : \E values \in [S -> Values] :
          /\ saved' = [v \in S |-> environ[v]]
          /\ environ' = [v \in EnvVars |-> IF v \in S THEN values[v] ELSE environ[v]]
    BY <1>4 DEF EnterScope
  <2>1. PICK values \in [S -> Values] :
          /\ saved' = [v \in S |-> environ[v]]
          /\ environ' = [v \in EnvVars |-> IF v \in S THEN values[v] ELSE environ[v]]
    BY <2>a
  <2>2. saved' \in [S -> Values \cup {Unset}]
    BY <1>0, <2>1 DEF TypeOK
  <2>3. environ' \in [EnvVars -> Values \cup {Unset}]
    BY <1>0, <2>1 DEF TypeOK
  <2>4. saved' \in UNION {[T -> Values \cup {Unset}] : T \in SUBSET EnvVars}
    BY <2>2
  <2> QED BY <1>0, <1>4, <2>3, <2>4 DEF EnterScope, TypeOK, Stages
<1>5. CASE PreRun
  <2>1. done' \in 0..Len(hooks)
    BY <1>h, <1>5 DEF PreRun
  <2> QED BY <1>0, <1>5, <2>1 DEF PreRun, TypeOK
<1>6. CASE Plan \/ RunLoad
  <2>1. stage = "pre" /\ stage' \in {"post", "on_error"}
    BY <1>6 DEF Plan, RunLoad, AllEntered, Succeed, Fail
  <2>2. status' \in Statuses
    BY <1>6 DEF Plan, RunLoad, Succeed, Fail, SuccessStatus, Statuses
  <2>3. run' \in RunRecord /\ run'.end = run.end
    BY <1>0, <1>6 DEF TypeOK, Plan, RunLoad, RunRecord
  <2>4. UNCHANGED <<req, hooks, done, environ, saved, home, leaked>>
    BY <1>6 DEF Plan, RunLoad
  <2> QED BY <1>0, <2>1, <2>2, <2>3, <2>4 DEF TypeOK, Stages
<1>7. CASE Tell
  <2>1. done' \in 0..Len(hooks)
    BY <1>h, <1>7 DEF Tell
  <2>2. run' \in RunRecord /\ run'.end = run.end
    <3>1. Append(run.rows, status) \in Seq(Statuses)
      BY <1>0 DEF TypeOK, RunRecord
    <3> QED BY <1>0, <1>7, <3>1 DEF TypeOK, Tell, Audit, RunRecord
  <2> QED BY <1>0, <1>7, <2>1, <2>2 DEF Tell, TypeOK
<1>8. CASE Leave
  BY <1>l, <1>8 DEF Leave
<1>9. CASE Interrupt
  <2>1. CASE LeaveScope("killed")
    BY <1>l, <2>1
  <2>2. ASSUME ~LeaveScope("killed") PROVE TypeOK'
    <3>1. environ' \in [EnvVars -> Values \cup {Unset}] /\ saved' = NoEnv /\ leaked' \subseteq EnvVars
      BY <1>0, <1>9, <2>2, RestoreHome DEF Interrupt
    <3>2. run' \in RunRecord /\ run'.end # "active"
      BY <1>0, <1>9, <2>2 DEF TypeOK, Interrupt, RunRecord, Ends
    <3> QED BY <1>0, <1>h, <1>9, <2>2, <3>1, <3>2, NoEnvType DEF TypeOK, Interrupt, Stages, Statuses
  <2> QED BY <2>1, <2>2
<1>10. CASE EnterCut
  <2>a. PICK D \in SUBSET EnvVars : \E values \in [D -> Values] :
          /\ environ' = [v \in EnvVars |-> IF v \in D THEN values[v] ELSE environ[v]]
          /\ leaked' = leaked \cup D
    BY <1>10 DEF EnterCut
  <2>1. PICK values \in [D -> Values] :
          /\ environ' = [v \in EnvVars |-> IF v \in D THEN values[v] ELSE environ[v]]
          /\ leaked' = leaked \cup D
    BY <2>a
  <2>2. environ' \in [EnvVars -> Values \cup {Unset}] /\ leaked' \subseteq EnvVars
    BY <1>0, <2>1 DEF TypeOK
  <2>3. run' \in RunRecord /\ run'.end # "active"
    BY <1>0, <1>10 DEF TypeOK, EnterCut, RunRecord, Ends
  <2> QED BY <1>0, <1>10, <2>2, <2>3 DEF EnterCut, TypeOK, Stages
<1> QED BY <1>1, <1>2, <1>3, <1>4, <1>5, <1>6, <1>7, <1>8, <1>9, <1>10 DEF Next

(* Every step keeps the scope of the environment.                           *)
LEMMA ScopeStep == IInv /\ [Next]_vars => EnvScoped'
<1> SUFFICES ASSUME IInv, [Next]_vars PROVE EnvScoped'
  OBVIOUS
<1>0. TypeOK /\ EnvScoped
  BY DEF IInv
<1>l. ASSUME Restore \/ RestoreCut, home' = home PROVE EnvScoped'
  BY <1>0, <1>l, RestoreHome DEF EnvScoped, NoEnv
<1>1. CASE UNCHANGED vars
  BY <1>0, <1>1 DEF vars, control, EnvScoped
<1>2. CASE Begin \/ RaiseEarly \/ ReturnValidated
  BY <1>0, <1>2 DEF Begin, RaiseEarly, ReturnValidated, EnvScoped
<1>3. CASE EnterScope
  <2>1. /\ \A v \in EnvVars \ leaked : environ[v] = home[v]
        /\ stage' = "pre" /\ UNCHANGED <<home, leaked>>
    BY <1>0, <1>3 DEF EnvScoped, EnterScope
  <2>a. PICK S \in SUBSET EnvVars : \E values \in [S -> Values] :
          /\ saved' = [v \in S |-> environ[v]]
          /\ environ' = [v \in EnvVars |-> IF v \in S THEN values[v] ELSE environ[v]]
    BY <1>3 DEF EnterScope
  <2>2. PICK values \in [S -> Values] :
          /\ saved' = [v \in S |-> environ[v]]
          /\ environ' = [v \in EnvVars |-> IF v \in S THEN values[v] ELSE environ[v]]
    BY <2>a
  <2> QED BY <2>1, <2>2 DEF EnvScoped
<1>4. CASE PreRun \/ Plan \/ RunLoad \/ Tell
  <2>1. stage' \notin {"idle", "begun"}
    BY <1>4 DEF PreRun, Plan, RunLoad, Tell, Succeed, Fail
  <2>2. UNCHANGED <<environ, saved, home, leaked>>
    BY <1>4 DEF PreRun, Plan, RunLoad, Tell
  <2> QED BY <1>0, <2>1, <2>2 DEF EnvScoped
<1>5. CASE Leave \/ Interrupt
  BY <1>l, <1>5 DEF Leave, Interrupt, LeaveScope
<1>6. CASE EnterCut
  <2>1. PICK D \in SUBSET EnvVars : \E values \in [D -> Values] :
          /\ environ' = [v \in EnvVars |-> IF v \in D THEN values[v] ELSE environ[v]]
          /\ leaked' = leaked \cup D
    BY <1>6 DEF EnterCut
  <2>2. \A v \in EnvVars \ leaked' : v \notin leaked /\ environ'[v] = environ[v]
    BY <2>1
  <2>3. stage = "begun" /\ UNCHANGED <<home, saved>> /\ saved = NoEnv
    BY <1>0, <1>6 DEF EnterCut, TypeOK
  <2> QED BY <1>0, <2>2, <2>3 DEF EnvScoped, NoEnv
<1> QED BY <1>1, <1>2, <1>3, <1>4, <1>5, <1>6 DEF Next

(* Every step keeps to the course of a run.                                 *)
LEMMA CourseStep == IInv /\ [Next]_vars => Course' /\ DryRunsDoNotLoad'
<1> SUFFICES ASSUME IInv, [Next]_vars PROVE Course' /\ DryRunsDoNotLoad'
  OBVIOUS
<1>0. TypeOK /\ Course /\ DryRunsDoNotLoad
  BY DEF IInv
<1>1. CASE UNCHANGED vars
  BY <1>0, <1>1 DEF vars, control, Course, DryRunsDoNotLoad, SuccessStatus
<1>2. CASE Begin
  <2>1. stage' = "begun" /\ status' = "none" /\ run' = NewRun
    BY <1>0, <1>2 DEF Begin, TypeOK
  <2> QED BY <2>1 DEF Course, DryRunsDoNotLoad, NewRun
<1>3. CASE RaiseEarly \/ ReturnValidated \/ EnterCut
  <2>1. stage' = "idle" /\ req' = req
    BY <1>3 DEF RaiseEarly, ReturnValidated, EnterCut
  <2>2. run'.started = run.started
    BY <1>0, <1>3 DEF RaiseEarly, ReturnValidated, EnterCut, TypeOK, RunRecord
  <2> QED BY <1>0, <2>1, <2>2 DEF Course, DryRunsDoNotLoad
<1>4. CASE EnterScope
  <2>1. stage' = "pre" /\ ~req.validateOnly /\ UNCHANGED <<req, status, run>>
    BY <1>4 DEF EnterScope
  <2>2. status = "none" /\ run = NewRun
    BY <1>0, <1>4 DEF EnterScope, Course
  <2> QED BY <2>1, <2>2 DEF Course, DryRunsDoNotLoad, NewRun
<1>5. CASE PreRun
  BY <1>0, <1>5 DEF PreRun, Course, DryRunsDoNotLoad
<1>6. CASE Plan
  <2>1. stage = "pre" /\ req.flags # {} /\ UNCHANGED <<req, run>>
    BY <1>6 DEF Plan, AllEntered, Planning
  <2>2. ~run.started /\ ~run.loaded /\ ~req.validateOnly
    BY <1>0, <2>1 DEF Course, NewRun
  <2>3. \/ stage' = "post" /\ status' = SuccessStatus(req)
        \/ stage' = "on_error" /\ status' = "failed"
    BY <1>6 DEF Plan, Succeed, Fail
  <2>4. CASE stage' = "post" /\ status' = SuccessStatus(req)
    <3>1. SuccessStatus(req)' = SuccessStatus(req)
      BY <2>1 DEF SuccessStatus
    <3> QED BY <2>1, <2>2, <2>4, <3>1 DEF Course, DryRunsDoNotLoad
  <2>5. CASE stage' = "on_error" /\ status' = "failed"
    BY <2>1, <2>2, <2>5 DEF Course, DryRunsDoNotLoad
  <2> QED BY <2>3, <2>4, <2>5
<1>7. CASE RunLoad
  <2>1. stage = "pre" /\ req.flags = {} /\ req' = req
    BY <1>7 DEF RunLoad, AllEntered, Planning
  <2>2. ~req.validateOnly /\ run = NewRun
    BY <1>0, <2>1 DEF Course
  <2>3. CASE Succeed /\ run' = [run EXCEPT !.started = TRUE, !.loaded = TRUE]
    <3>1. stage' = "post" /\ status' = SuccessStatus(req)' /\ run'.started /\ run'.loaded
      BY <2>1, <2>2, <2>3 DEF Succeed, SuccessStatus, NewRun
    <3> QED BY <2>1, <2>2, <3>1 DEF Course, DryRunsDoNotLoad
  <2>4. CASE Fail /\ run' = [run EXCEPT !.started = TRUE]
    <3>1. stage' = "on_error" /\ status' = "failed" /\ ~run'.loaded
      BY <2>2, <2>4 DEF Fail, NewRun
    <3> QED BY <2>1, <2>2, <3>1 DEF Course, DryRunsDoNotLoad
  <2> QED BY <1>7, <2>3, <2>4 DEF RunLoad
<1>8. CASE Tell
  <2>1. UNCHANGED <<req, stage, status>> /\ stage \notin {"begun", "pre"}
    BY <1>8 DEF Tell
  <2>2. run'.started = run.started /\ run'.loaded = run.loaded
    BY <1>0, <1>8 DEF Tell, Audit, TypeOK, RunRecord
  <2>3. SuccessStatus(req)' = SuccessStatus(req)
    BY <2>1 DEF SuccessStatus
  <2> QED BY <1>0, <2>1, <2>2, <2>3 DEF Course, DryRunsDoNotLoad
<1>9. CASE Leave \/ Interrupt
  <2>1. stage' = "idle" /\ req' = req
    BY <1>9 DEF Leave, Interrupt, LeaveScope
  <2>2. \/ run'.started = run.started
        \/ run'.started /\ stage = "pre" /\ ~Planning(req)
    BY <1>0, <1>9 DEF Leave, Interrupt, LeaveScope, TypeOK, RunRecord, AllEntered
  <2>3. run'.started => req.flags = {} /\ ~req.validateOnly
    BY <1>0, <2>2 DEF Planning, Course, DryRunsDoNotLoad
  <2> QED BY <2>1, <2>3 DEF Course, DryRunsDoNotLoad
<1> QED BY <1>1, <1>2, <1>3, <1>4, <1>5, <1>6, <1>7, <1>8, <1>9 DEF Next

(* Every step keeps the rows of the audit table true: one is written only   *)
(* when the audit hook is told, which no hook after it in the list is.      *)
LEMMA RowStep == IInv /\ [Next]_vars => RowTold' /\ AuditTruthful'
<1> SUFFICES ASSUME IInv, [Next]_vars PROVE RowTold' /\ AuditTruthful'
  OBVIOUS
<1>0. TypeOK /\ Course /\ RowTold /\ AuditTruthful
  BY DEF IInv
<1>a. (stage # "idle" => run.end = "active") /\ run \in RunRecord
  BY <1>0 DEF TypeOK
<1>e. ASSUME run'.rows = <<>> PROVE RowTold' /\ AuditTruthful'
  BY <1>e DEF RowTold, AuditTruthful
<1>n. ASSUME run = NewRun PROVE run.rows = <<>>
  BY <1>n DEF NewRun
<1>1. CASE UNCHANGED vars
  BY <1>0, <1>1 DEF vars, control, RowTold, AuditTruthful
<1>2. CASE Begin
  <2>1. run'.rows = <<>>
    BY <1>2 DEF Begin, NewRun
  <2> QED BY <1>e, <2>1
<1>3. CASE RaiseEarly \/ ReturnValidated \/ EnterCut \/ EnterScope \/ PreRun \/ Plan \/ RunLoad
  <2>1. stage \in {"begun", "pre"}
    BY <1>3 DEF RaiseEarly, ReturnValidated, EnterCut, EnterScope, PreRun, Plan, RunLoad, AllEntered
  <2>2. run'.rows = run.rows
    BY <1>a, <1>3 DEF RaiseEarly, ReturnValidated, EnterCut, EnterScope, PreRun, Plan, RunLoad, RunRecord
  <2>3. run.rows = <<>>
    BY <1>0, <1>n, <2>1 DEF Course
  <2> QED BY <1>e, <2>2, <2>3
<1>4. CASE Tell
  <2>1. stage \in {"post", "on_error"} /\ UNCHANGED <<stage, status, hooks, req>> /\ done' = done - 1 /\ done > 0
    BY <1>4 DEF Tell
  <2>2. hooks \in HookLists /\ hooks \in Seq(STRING) /\ done \in 1..Len(hooks)
    BY <1>0, <2>1, RunAssumption DEF TypeOK
  <2>3. CASE UNCHANGED run
    <3>1. SuccessStatus(req)' = SuccessStatus(req)
      BY <2>1 DEF SuccessStatus
    <3>2. AuditTruthful'
      BY <1>0, <2>3 DEF AuditTruthful
    <3>3. RowTold'
      BY <1>0, <2>1, <2>2, <2>3 DEF RowTold
    <3> QED BY <3>2, <3>3
  <2>4. CASE hooks[done] = "audit_run" /\ run' = [run EXCEPT !.rows = Append(@, status)]
    <3>1. run.rows = <<>>
      <4>1. \A i \in DOMAIN hooks : hooks[i] = "audit_run" => i = done
        BY <2>2, <2>4, RunAssumption
      <4> QED BY <1>0, <2>1, <2>2, <4>1 DEF RowTold
    <3>2. Append(run.rows, status) = <<status>>
      BY <3>1
    <3>3. run' = [run EXCEPT !.rows = <<status>>]
      BY <2>4, <3>2
    <3>4. run'.rows = <<status>> /\ run'.loaded = run.loaded /\ run'.started = run.started /\ run'.end = "active"
      BY <1>a, <2>1, <3>3 DEF RunRecord
    <3>5. RowTold'
      BY <2>1, <2>2, <2>4, <3>4 DEF RowTold
    <3>6. CASE stage = "post"
      <4>1. /\ status = "success" => run.loaded
            /\ status # "failed"
            /\ status # "success" => ~run.started
        <5>1. req.flags \subseteq Flags
          BY <1>0, RunAssumption DEF TypeOK, Request
        <5>2. CASE req.flags = {}
          BY <1>0, <3>6, <5>2 DEF Course, SuccessStatus
        <5>3. CASE req.flags # {}
          BY <1>0, <3>6, <5>1, <5>3 DEF Course, SuccessStatus, Flags
        <5> QED BY <5>2, <5>3
      <4> QED BY <3>4, <3>5, <4>1 DEF AuditTruthful
    <3>7. CASE stage = "on_error"
      <4>1. status = "failed" /\ ~run.loaded
        BY <1>0, <3>7 DEF Course
      <4> QED BY <3>4, <3>5, <4>1 DEF AuditTruthful
    <3> QED BY <2>1, <3>6, <3>7
  <2> QED BY <1>4, <2>3, <2>4 DEF Tell, Audit
<1>5. CASE Leave
  <2>1. stage' = "idle" /\ run'.rows = run.rows /\ run'.loaded = run.loaded /\ run'.started = run.started
    BY <1>a, <1>5 DEF Leave, LeaveScope, RunRecord
  <2>2. CASE stage = "post" /\ run'.end = "returned"
    <3>1. run.rows # <<>> => run.rows = <<status>> /\ status # "failed"
      BY <1>0, <2>2 DEF RowTold, Course, SuccessStatus
    <3> QED BY <1>0, <2>1, <2>2, <3>1 DEF RowTold, AuditTruthful
  <2>3. CASE stage = "on_error" /\ run'.end = "raised"
    <3>1. run.rows # <<>> => run.rows = <<status>> /\ status = "failed"
      BY <1>0, <2>3 DEF RowTold, Course
    <3> QED BY <1>0, <2>1, <2>3, <3>1 DEF RowTold, AuditTruthful
  <2> QED BY <1>a, <1>5, <2>2, <2>3 DEF Leave, LeaveScope, RunRecord
<1>6. CASE Interrupt
  <2>1. stage' = "idle" /\ run'.rows = run.rows /\ run'.loaded = run.loaded /\ run'.end = "killed"
    BY <1>a, <1>6 DEF Interrupt, LeaveScope, RunRecord
  <2>2. CASE stage = "pre"
    <3>1. run.rows = <<>>
      BY <1>0, <1>n, <2>2 DEF Course
    <3> QED BY <1>e, <2>1, <3>1
  <2>3. CASE stage # "pre"
    <3>1. run'.started = run.started
      BY <1>a, <1>6, <2>3 DEF Interrupt, LeaveScope, AllEntered, RunRecord
    <3> QED BY <1>0, <2>1, <3>1 DEF RowTold, AuditTruthful
  <2> QED BY <2>2, <2>3
<1> QED BY <1>1, <1>2, <1>3, <1>4, <1>5, <1>6 DEF Next

LEMMA Inductive == IInv /\ [Next]_vars => IInv'
BY TypeStep, ScopeStep, CourseStep, RowStep DEF IInv

LEMMA Invariant == Spec => []IInv
BY InitInv, Inductive, PTL DEF Spec

(* In every run of every manifest the variables keep their types, and only  *)
(* an active run has an environment scope (executor.py run_manifest).       *)
THEOREM Types == Spec => []TypeOK
<1>1. IInv => TypeOK
  BY DEF IInv
<1> QED BY <1>1, Invariant, PTL

(* Whatever variables the connections set, however the runs end and wherever *)
(* a loop of temporary_environ is cut off: outside a run the process has the *)
(* environment it started with, but for the variables a cut-off loop went    *)
(* over (vault_env.py).                                                     *)
THEOREM EnvironmentScoped == Spec => []EnvScoped
<1>1. IInv => EnvScoped
  BY DEF IInv
<1> QED BY <1>1, Invariant, PTL

(* A plan or a dry run never starts the runner, whatever the flags and the  *)
(* hooks of the run are (executor.py, "if plan or dry_run ...").            *)
THEOREM PlansDoNotLoad == Spec => []DryRunsDoNotLoad
<1>1. IInv => DryRunsDoNotLoad
  BY DEF IInv
<1> QED BY <1>1, Invariant, PTL

(* A run writes at most one audit row, and what the row says is how the run *)
(* went, for every selection of hooks (audit_run.py).                       *)
THEOREM AuditIsTruthful == Spec => []AuditTruthful
<1>1. IInv => AuditTruthful
  BY DEF IInv
<1> QED BY <1>1, Invariant, PTL

-------------------------------------------------------------------------------
(* The hooks entered and not told are a prefix of the list: entering a hook *)
(* appends it, telling one removes the last.                                *)
LEMMA PrefixGrows ==
  ASSUME NEW S, NEW s \in Seq(S), NEW n \in Nat, n < Len(s)
  PROVE  SubSeq(s, 1, n + 1) = Append(SubSeq(s, 1, n), s[n + 1])
<1>1. n + 1 \in 1..Len(s) /\ 1 \in 1..Len(s)
  OBVIOUS
<1>2. \A i \in 1..n : s[i] \in S
  OBVIOUS
<1>3. SubSeq(s, 1, n) \in Seq(S)
  BY <1>2, SubSeqProperties
<1> QED BY <1>1, <1>3

LEMMA PrefixShrinks ==
  ASSUME NEW S, NEW s \in Seq(S), NEW n \in 1..Len(s)
  PROVE  /\ SubSeq(s, 1, n) # <<>>
         /\ SubSeq(SubSeq(s, 1, n), 1, Len(SubSeq(s, 1, n)) - 1) = SubSeq(s, 1, n - 1)
OBVIOUS

(* The refinement mapping of ManifestRun!Protocol by name.                  *)
Entered == SubSeq(hooks, 1, done)
Verdict == CASE stage = "post" -> "succeeded" [] stage = "on_error" -> "failed" [] OTHER -> "none"
AllHooks == UNION {{l[i] : i \in DOMAIN l} : l \in HookLists}

LEMMA NoneEntered == done = 0 => Entered = <<>>
BY SubSeqEmpty DEF Entered

LEMMA HooksInit == Init => Protocol!HookInit
<1> SUFFICES ASSUME Init PROVE Protocol!HookInit
  OBVIOUS
<1>1. Entered = <<>> /\ Verdict = "none"
  BY NoneEntered DEF Init, Verdict
<1>2. run.end = "none"
  BY DEF Init, NewRun
<1> QED BY <1>1, <1>2 DEF Protocol!HookInit, Entered, Verdict

(* Every step of a run is a step of the protocol or changes nothing of it.  *)
LEMMA HooksStep == IInv /\ [Next]_vars => [Protocol!HookNext]_Protocol!hookVars
<1> SUFFICES ASSUME IInv, [Next]_vars PROVE [Protocol!HookNext]_Protocol!hookVars
  OBVIOUS
<1>0. TypeOK
  BY DEF IInv
<1>a. (stage # "idle" <=> run.end = "active") /\ run \in RunRecord
  BY <1>0 DEF TypeOK
<1>h. hooks \in HookLists /\ hooks \in Seq(STRING) /\ done \in 0..Len(hooks)
  BY <1>0, RunAssumption DEF TypeOK
<1>n. done' = 0 => Entered' = <<>>
  BY SubSeqEmpty DEF Entered
<1>k. ASSUME run'.end = "killed", done' = 0, stage' = "idle", stage # "idle" PROVE Protocol!HookNext
  <2>1. Entered' = <<>> /\ Verdict' = "none"
    BY <1>k, <1>n DEF Verdict
  <2> QED BY <1>a, <1>k, <2>1 DEF Protocol!HookNext, Protocol!Die, Entered, Verdict
<1>1. CASE UNCHANGED vars \/ EnterScope
  <2>1. UNCHANGED <<hooks, done, run>> /\ Verdict' = Verdict
    BY <1>1 DEF vars, control, EnterScope, Verdict
  <2> QED BY <2>1 DEF Protocol!hookVars, Verdict
<1>2. CASE Begin
  <2>1. run.end # "active" /\ run'.end = "active"
    BY <1>a, <1>2 DEF Begin, NewRun
  <2>2. done = 0 /\ done' = 0 /\ Verdict = "none" /\ Verdict' = "none"
    BY <1>0, <1>2 DEF Begin, TypeOK, Verdict
  <2>3. Entered' = Entered
    BY <1>n, <2>2, NoneEntered
  <2> QED BY <2>1, <2>2, <2>3 DEF Protocol!HookNext, Protocol!Open, Entered, Verdict
<1>3. CASE RaiseEarly \/ ReturnValidated
  <2>1. run.end = "active" /\ run'.end \in {"raised", "returned"}
    BY <1>a, <1>3 DEF RaiseEarly, ReturnValidated, RunRecord
  <2>2. done = 0 /\ done' = 0 /\ Verdict = "none" /\ Verdict' = "none"
    BY <1>0, <1>3 DEF RaiseEarly, ReturnValidated, TypeOK, Verdict
  <2>3. Entered = <<>> /\ Entered' = <<>>
    BY <1>n, <2>2, NoneEntered
  <2> QED BY <2>1, <2>2, <2>3 DEF Protocol!HookNext, Protocol!Finish, Protocol!EndAs, Entered, Verdict
<1>4. CASE PreRun
  <2>1. run.end = "active" /\ run' = run /\ Verdict = "none" /\ Verdict' = "none"
    BY <1>a, <1>4 DEF PreRun, Verdict
  <2>2. done < Len(hooks) /\ done' = done + 1 /\ hooks' = hooks
    BY <1>4 DEF PreRun
  <2>3. Entered' = Append(Entered, hooks[done + 1])
    BY <1>h, <2>2, PrefixGrows DEF Entered
  <2>4. hooks[done + 1] \in AllHooks
    BY <1>h, <2>2 DEF AllHooks
  <2>5. PICK h \in AllHooks : Entered' = Append(Entered, h)
    BY <2>3, <2>4
  <2> QED BY <2>1, <2>5 DEF Protocol!HookNext, Protocol!Enter, Entered, Verdict, AllHooks
<1>5. CASE Plan \/ RunLoad
  <2>1. stage = "pre" /\ UNCHANGED <<hooks, done>>
    BY <1>5 DEF Plan, RunLoad, AllEntered
  <2>2. Verdict = "none" /\ Verdict' \in {"succeeded", "failed"}
    BY <2>1, <1>5 DEF Plan, RunLoad, Succeed, Fail, Verdict
  <2>3. run.end = "active" /\ run'.end = run.end
    BY <1>a, <2>1, <1>5 DEF Plan, RunLoad, RunRecord
  <2> QED BY <2>1, <2>2, <2>3 DEF Protocol!HookNext, Protocol!Decide, Verdict
<1>6. CASE Tell
  <2>1. Verdict # "none" /\ Verdict' = Verdict /\ run'.end = run.end
    BY <1>a, <1>6 DEF Tell, Audit, Verdict, RunRecord
  <2>2. done \in 1..Len(hooks) /\ done' = done - 1 /\ hooks' = hooks
    BY <1>h, <1>6 DEF Tell
  <2>3. Entered # <<>> /\ Entered' = SubSeq(Entered, 1, Len(Entered) - 1)
    BY <1>h, <2>2, PrefixShrinks DEF Entered
  <2> QED BY <2>1, <2>3 DEF Protocol!HookNext, Protocol!Tell, Entered, Verdict
<1>7. CASE Leave
  <2>1. done = 0 /\ done' = 0 /\ stage' = "idle"
    BY <1>7 DEF Leave, LeaveScope
  <2>2. Entered = <<>> /\ Entered' = <<>> /\ Verdict' = "none"
    BY <1>n, <2>1, NoneEntered DEF Verdict
  <2>3. run.end = "active" /\ run'.end = (IF Verdict = "succeeded" THEN "returned" ELSE "raised")
                          /\ Verdict \in {"succeeded", "failed"}
    BY <1>a, <1>7 DEF Leave, LeaveScope, RunRecord, Verdict
  <2> QED BY <2>2, <2>3 DEF Protocol!HookNext, Protocol!Finish, Protocol!EndAs, Entered, Verdict
<1>8. CASE Interrupt
  <2>1. stage # "idle" /\ stage' = "idle" /\ done' = 0 /\ run'.end = "killed"
    BY <1>a, <1>8 DEF Interrupt, LeaveScope, AllEntered, RunRecord
  <2> QED BY <1>k, <2>1
<1>9. CASE EnterCut
  <2>1. run.end = "active" /\ run'.end \in {"raised", "killed"}
    BY <1>a, <1>9 DEF EnterCut, RunRecord
  <2>2. done = 0 /\ done' = 0 /\ Verdict = "none" /\ Verdict' = "none"
    BY <1>0, <1>9 DEF EnterCut, TypeOK, Verdict
  <2>3. Entered = <<>> /\ Entered' = <<>>
    BY <1>n, <2>2, NoneEntered
  <2>4. CASE run'.end = "raised"
    BY <2>1, <2>2, <2>3, <2>4 DEF Protocol!HookNext, Protocol!Finish, Protocol!EndAs, Entered, Verdict
  <2>5. CASE run'.end = "killed"
    BY <2>1, <2>2, <2>3, <2>5 DEF Protocol!HookNext, Protocol!Die, Entered, Verdict
  <2> QED BY <2>1, <2>4, <2>5
<1> QED BY <1>1, <1>2, <1>3, <1>4, <1>5, <1>6, <1>7, <1>8, <1>9 DEF Next

(* For every selection of hooks, a run implements HookProtocol: hooks are   *)
(* told once, in reverse order, how the run they entered ended, and before  *)
(* it ends (pipeline.py HookPipeline.run).                                  *)
THEOREM HooksTold == Spec => HookOrder
BY Invariant, HooksInit, HooksStep, PTL DEF Spec, HookOrder, Protocol!HookSpec

-------------------------------------------------------------------------------
(* Mappings as the translations of SqlSource build them.                    *)
LEMMA Overlaying == ASSUME NEW f, NEW g
  PROVE /\ Keys(Overlay(f, g)) = Keys(f) \cup Keys(g)
        /\ \A k \in Keys(f) : Overlay(f, g)[k] = f[k]
        /\ \A k \in Keys(g) \ Keys(f) : Overlay(f, g)[k] = g[k]
BY DEF Keys, Overlay

LEMMA Setting == ASSUME NEW m, NEW key, NEW value
  PROVE /\ Keys(Set(m, key, value)) = Keys(m) \cup {key}
        /\ Set(m, key, value)[key] = value
        /\ \A k \in Keys(m) : k # key => Set(m, key, value)[k] = m[k]
BY DEF Keys, Set

LEMMA Restricting == ASSUME NEW m, NEW keys
  PROVE /\ Keys(Only(m, keys)) = keys \cap Keys(m)
        /\ \A k \in keys \cap Keys(m) : Only(m, keys)[k] = m[k]
        /\ Keys(Without(m, keys)) = Keys(m) \ keys
        /\ \A k \in Keys(m) \ keys : Without(m, keys)[k] = m[k]
BY DEF Keys, Only, Without

LEMMA EmptyKeys == Keys(None) = {} /\ \A k : Get(None, k) = ""
BY DEF None, Keys, Get

LEMMA SameOnly == ASSUME NEW f, NEW g, NEW keys, keys \cap Keys(f) = keys \cap Keys(g),
                         \A k \in keys \cap Keys(f) : f[k] = g[k]
  PROVE  Only(f, keys) = Only(g, keys)
BY DEF Only

LEMMA Normalized == ASSUME NEW src
  PROVE /\ {"kind", "dialect"} \subseteq Keys(Normalize(src))
        /\ Normalize(src)["kind"] = ShapeOf(src)["kind"]
        /\ Normalize(src)["dialect"] = ShapeOf(src)["dialect"]
        /\ "mode" \in Keys(Normalize(src)) <=> "mode" \in Keys(ShapeOf(src))
        /\ "mode" \in Keys(ShapeOf(src)) => Normalize(src)["mode"] = ShapeOf(src)["mode"]
        /\ \A s \in Sections :
             /\ s \in Keys(Normalize(src)) <=> s \in Keys(SectionsOf(src))
             /\ s \in Keys(Normalize(src)) => Normalize(src)[s] = SectionsOf(src)[s]
        /\ \A s \in PassThrough :
             /\ s \in Keys(Normalize(src)) <=> s \in Keys(src)
             /\ s \in Keys(src) => Normalize(src)[s] = src[s]
<1>1. Keys(ShapeOf(src)) \in {{"kind", "dialect"}, {"kind", "dialect", "mode"}}
  BY DEF ShapeOf, Shape, Keys
<1>2. Keys(SectionsOf(src)) \subseteq Sections
  BY DEF SectionsOf, Keys
<1>3. Keys(Only(src, PassThrough)) = PassThrough \cap Keys(src) 
  BY Restricting
<1>4. /\ Keys(Normalize(src)) = Keys(ShapeOf(src)) \cup Keys(SectionsOf(src)) \cup (PassThrough \cap Keys(src))
      /\ \A k \in Keys(ShapeOf(src)) : Normalize(src)[k] = ShapeOf(src)[k]
      /\ \A k \in Keys(SectionsOf(src)) \ Keys(ShapeOf(src)) : Normalize(src)[k] = SectionsOf(src)[k]
      /\ \A k \in (PassThrough \cap Keys(src)) \ (Keys(ShapeOf(src)) \cup Keys(SectionsOf(src))) : Normalize(src)[k] = src[k]
  <2> DEFINE u == Overlay(SectionsOf(src), Only(src, PassThrough))
  <2>1. /\ Keys(u) = Keys(SectionsOf(src)) \cup (PassThrough \cap Keys(src))
        /\ \A k \in Keys(SectionsOf(src)) : u[k] = SectionsOf(src)[k]
        /\ \A k \in (PassThrough \cap Keys(src)) \ Keys(SectionsOf(src)) : u[k] = src[k]
    BY <1>3, Overlaying, Restricting
  <2> HIDE DEF u
  <2>2. /\ Keys(Overlay(ShapeOf(src), u)) = Keys(ShapeOf(src)) \cup Keys(u)
        /\ \A k \in Keys(ShapeOf(src)) : Overlay(ShapeOf(src), u)[k] = ShapeOf(src)[k]
        /\ \A k \in Keys(u) \ Keys(ShapeOf(src)) : Overlay(ShapeOf(src), u)[k] = u[k]
    BY Overlaying
  <2>3. Normalize(src) = Overlay(ShapeOf(src), u)
    BY DEF Normalize, u
  <2> QED BY <2>1, <2>2, <2>3
<1> QED BY <1>1, <1>2, <1>4 DEF Sections, PassThrough
(* The sections of a source, gathered.                                      *)
LEMMA Sectioned == ASSUME NEW src, NEW s \in Sections
  PROVE /\ Keys(Section(Normalize(src), s)) = Keys(SectionOf(src, s))
        /\ \A k \in Keys(SectionOf(src, s)) : Section(Normalize(src), s)[k] = SectionOf(src, s)[k]
        /\ s \in Keys(Normalize(src)) <=> Keys(SectionOf(src, s)) # {}
<1>1. Keys(SectionsOf(src)) = {t \in Sections : Keys(SectionOf(src, t)) # {}}
  BY DEF SectionsOf, Keys
<1>2. Keys(SectionOf(src, s)) # {} => SectionsOf(src)[s] = SectionOf(src, s)
  BY DEF SectionsOf
<1>3. /\ s \in Keys(Normalize(src)) <=> Keys(SectionOf(src, s)) # {}
      /\ s \in Keys(Normalize(src)) => Normalize(src)[s] = SectionOf(src, s)
  BY <1>1, <1>2, Normalized
<1> QED BY <1>3, EmptyKeys DEF Section

(* The execution manifest is a source of an older kind.                     *)
LEMMA ExecutedCatalog == ASSUME NEW n, n["mode"] = "catalog"
  PROVE /\ Keys(Execution(n)) = {"kind"} \cup (PassThrough \cap Keys(n))
                                 \cup ((CatalogFields \ {"db_schema"}) \cap Keys(Section(n, "catalog")))
        /\ Execution(n)["kind"] = "sql_database"
        /\ \A k \in (CatalogFields \ {"db_schema"}) \cap Keys(Section(n, "catalog")) :
             Execution(n)[k] = Section(n, "catalog")[k]
<1> DEFINE c == Section(n, "catalog")
           p == Only(n, PassThrough)
           l == Only(c, CatalogFields \ {"db_schema"})
<1>1. Keys(p) = PassThrough \cap Keys(n)
  BY Restricting
<1>2. /\ Keys(l) = (CatalogFields \ {"db_schema"}) \cap Keys(c)
      /\ \A k \in Keys(l) : l[k] = c[k]
  BY Restricting
<1>3. Execution(n) = Overlay(Set(l, "kind", "sql_database"), p)
  BY DEF Execution
<1> HIDE DEF l, p, c
<1>4. /\ Keys(Set(l, "kind", "sql_database")) = Keys(l) \cup {"kind"}
      /\ Set(l, "kind", "sql_database")["kind"] = "sql_database"
      /\ \A k \in Keys(l) : k # "kind" => Set(l, "kind", "sql_database")[k] = l[k]
  BY Setting
<1>5. /\ Keys(Execution(n)) = Keys(Set(l, "kind", "sql_database")) \cup Keys(p)
      /\ \A k \in Keys(Set(l, "kind", "sql_database")) : Execution(n)[k] = Set(l, "kind", "sql_database")[k]
  BY <1>3, Overlaying
<1>6. "kind" \notin CatalogFields
  BY DEF CatalogFields
<1> QED BY <1>1, <1>2, <1>4, <1>5, <1>6 DEF c

LEMMA ExecutedQuery == ASSUME NEW n, n["mode"] = "query"
  PROVE /\ Keys(Execution(n)) = {"kind"} \cup (PassThrough \cap Keys(n))
                                 \cup (QueryFields \cap Keys(Section(n, "query")))
                                 \cup ({"init_sql"} \cap Keys(Section(n, "dialect_options")))
        /\ Execution(n)["kind"] = "oracle_custom_sql"
        /\ \A k \in QueryFields \cap Keys(Section(n, "query")) : Execution(n)[k] = Section(n, "query")[k]
        /\ \A k \in {"init_sql"} \cap Keys(Section(n, "dialect_options")) :
             Execution(n)[k] = Section(n, "dialect_options")[k]
<1> DEFINE q == Section(n, "query")
           o == Section(n, "dialect_options")
           p == Only(n, PassThrough)
           l == Only(q, QueryFields)
           i == Only(o, {"init_sql"})
           b == Overlay(l, i)
<1>1. Keys(p) = PassThrough \cap Keys(n)
  BY Restricting
<1>2. /\ Keys(l) = QueryFields \cap Keys(q)
      /\ \A k \in Keys(l) : l[k] = q[k]
      /\ Keys(i) = {"init_sql"} \cap Keys(o)
      /\ \A k \in Keys(i) : i[k] = o[k]
  BY Restricting
<1>3. Execution(n) = Overlay(Set(b, "kind", "oracle_custom_sql"), p)
  BY DEF Execution
<1>4. /\ Keys(b) = Keys(l) \cup Keys(i)
      /\ \A k \in Keys(l) : b[k] = l[k]
      /\ \A k \in Keys(i) \ Keys(l) : b[k] = i[k]
  BY Overlaying
<1> HIDE DEF b, l, i, p, o, q
<1>5. /\ Keys(Set(b, "kind", "oracle_custom_sql")) = Keys(b) \cup {"kind"}
      /\ Set(b, "kind", "oracle_custom_sql")["kind"] = "oracle_custom_sql"
      /\ \A k \in Keys(b) : k # "kind" => Set(b, "kind", "oracle_custom_sql")[k] = b[k]
  BY Setting
<1>6. /\ Keys(Execution(n)) = Keys(Set(b, "kind", "oracle_custom_sql")) \cup Keys(p)
      /\ \A k \in Keys(Set(b, "kind", "oracle_custom_sql")) :
           Execution(n)[k] = Set(b, "kind", "oracle_custom_sql")[k]
  BY <1>3, Overlaying
<1>7. QueryFields = {"queries", "fetch_batch_size"}
  BY DEF QueryFields
<1> QED BY <1>1, <1>2, <1>4, <1>5, <1>6, <1>7 DEF q, o

LEMMA ExpectsLoaded == ASSUME NEW n, n["mode"] \in {"catalog", "query"}
  PROVE ExpectedTables(Execution(n)) = LoadedTables(n)
<1> DEFINE e == Execution(n)
           c == Section(n, "catalog")
           q == Section(n, "query")
<1>1. CASE n["mode"] = "catalog"
  <2>1. ASSUME NEW k \in {"schemas", "tables", "table_name_transform"}
        PROVE  Get(e, k) = Get(c, k)
    <3>1. k \in CatalogFields \ {"db_schema"} /\ k \notin PassThrough /\ k # "kind"
      BY DEF CatalogFields, PassThrough
    <3>2. k \in Keys(e) <=> k \in Keys(c)
      BY <1>1, <3>1, ExecutedCatalog
    <3>3. k \in Keys(c) => e[k] = c[k]
      BY <1>1, <3>1, ExecutedCatalog
    <3> QED BY <3>2, <3>3 DEF Get
  <2>2. \A m : Get(m, "schemas") # "" => m["schemas"] = Get(m, "schemas")
    BY DEF Get
  <2>3. e["kind"] # "oracle_custom_sql"
    BY <1>1, ExecutedCatalog
  <2> HIDE DEF e, c
  <2>4. ExpectedTables(e) = LoadedTables(n)
    BY <1>1, <2>1, <2>2, <2>3 DEF ExpectedTables, LoadedTables, c
  <2> QED BY <2>4 DEF e
<1>2. CASE n["mode"] = "query"
  <2>1. Get(e, "queries") = Get(q, "queries")
    <3>1. "queries" \in QueryFields /\ "queries" \notin PassThrough
      BY DEF QueryFields, PassThrough
    <3>2. "queries" \in Keys(e) <=> "queries" \in Keys(q)
      BY <1>2, <3>1, ExecutedQuery
    <3>3. "queries" \in Keys(q) => e["queries"] = q["queries"]
      BY <1>2, <3>1, ExecutedQuery
    <3> QED BY <3>2, <3>3 DEF Get
  <2>2. e["kind"] = "oracle_custom_sql"
    BY <1>2, ExecutedQuery
  <2> HIDE DEF e
  <2>3. ExpectedTables(e) = LoadedTables(n)
    BY <1>2, <2>1, <2>2 DEF ExpectedTables, LoadedTables
  <2> QED BY <2>3 DEF e
<1> QED BY <1>1, <1>2
LEMMA Gathering == ASSUME NEW src, NEW s
  PROVE /\ Keys(Gathered(src, s)) = Keys(Section(src, s)) \cup (FieldsOf[s] \cap Keys(src))
        /\ \A k \in Keys(Section(src, s)) : Gathered(src, s)[k] = Section(src, s)[k]
        /\ \A k \in (FieldsOf[s] \cap Keys(src)) \ Keys(Section(src, s)) : Gathered(src, s)[k] = src[k]
BY Overlaying, Restricting DEF Gathered

(* A source that has only fields at its top.                                *)
LEMMA Flat == ASSUME NEW src, NEW s \in Sections, s \notin Keys(src), "db_schema" \notin Keys(src)
  PROVE /\ Keys(Section(Normalize(src), s)) = FieldsOf[s] \cap Keys(src)
        /\ \A k \in FieldsOf[s] \cap Keys(src) : Section(Normalize(src), s)[k] = src[k]
<1>1. Keys(Section(src, s)) = {}
  BY EmptyKeys DEF Section
<1>2. /\ Keys(Gathered(src, s)) = FieldsOf[s] \cap Keys(src)
      /\ \A k \in Keys(Gathered(src, s)) : Gathered(src, s)[k] = src[k]
  BY <1>1, Gathering
<1>3. SectionOf(src, s) = Gathered(src, s)
  BY <1>2 DEF SectionOf, Renamed
<1> QED BY <1>2, <1>3, Sectioned

LEMMA ExecutesSame == ASSUME NEW n, n["mode"] \in {"catalog", "query"}
  PROVE Loads(Normalize(Execution(n))) = [Loads(n) EXCEPT !.options = Without(@, {"thick_mode"})]
<1> DEFINE e == Execution(n)
           m == Normalize(e)
<1>0. /\ FieldsOf["catalog"] = CatalogFields /\ FieldsOf["query"] = QueryFields
      /\ FieldsOf["dialect_options"] = DialectFields
  BY DEF FieldsOf
<1>1. CASE n["mode"] = "catalog"
  <2> DEFINE fields == CatalogFields \ {"db_schema"}
             c == Section(n, "catalog")
  <2>1. /\ Keys(e) = {"kind"} \cup (PassThrough \cap Keys(n)) \cup (fields \cap Keys(c))
        /\ e["kind"] = "sql_database"
        /\ \A k \in fields \cap Keys(c) : e[k] = c[k]
    BY <1>1, ExecutedCatalog
  <2>2. "mode" \in Keys(ShapeOf(e)) /\ ShapeOf(e)["mode"] = "catalog"
    BY <2>1 DEF ShapeOf, Shape, Keys
  <2>3. m["mode"] = "catalog"
    BY <2>2, Normalized
  <2>4. "catalog" \notin Keys(e) /\ "db_schema" \notin Keys(e)
    BY <2>1 DEF CatalogFields, PassThrough
  <2>5. fields \cap Keys(e) = fields \cap Keys(c) /\ CatalogFields \cap Keys(e) = fields \cap Keys(c)
    BY <2>1, <2>4 DEF CatalogFields, PassThrough
  <2>6. /\ Keys(Section(m, "catalog")) = CatalogFields \cap Keys(e)
        /\ \A k \in CatalogFields \cap Keys(e) : Section(m, "catalog")[k] = e[k]
    BY <1>0, <2>4, Flat DEF Sections
  <2> HIDE DEF e, m, c
  <2>7. Only(Section(m, "catalog"), fields) = Only(c, fields)
    BY <2>1, <2>5, <2>6, SameOnly
  <2>8. Without(None, {"thick_mode"}) = None
    BY DEF Without, None, Keys
  <2>9. Loads(m) = [mode |-> "catalog", what |-> Only(c, fields), options |-> None]
    BY <2>3, <2>7 DEF Loads
  <2>10. Loads(n) = [mode |-> "catalog", what |-> Only(c, fields), options |-> None]
    BY <1>1 DEF Loads, c
  <2>11. Loads(m) = [Loads(n) EXCEPT !.options = Without(@, {"thick_mode"})]
    BY <2>8, <2>9, <2>10
  <2> QED BY <2>11 DEF m, e
<1>2. CASE n["mode"] = "query"
  <2> DEFINE q == Section(n, "query")
             o == Section(n, "dialect_options")
  <2>1. /\ Keys(e) = {"kind"} \cup (PassThrough \cap Keys(n)) \cup (QueryFields \cap Keys(q))
                       \cup ({"init_sql"} \cap Keys(o))
        /\ e["kind"] = "oracle_custom_sql"
        /\ \A k \in QueryFields \cap Keys(q) : e[k] = q[k]
        /\ \A k \in {"init_sql"} \cap Keys(o) : e[k] = o[k]
    BY <1>2, ExecutedQuery
  <2>2. "mode" \in Keys(ShapeOf(e)) /\ ShapeOf(e)["mode"] = "query"
    BY <2>1 DEF ShapeOf, Shape, Keys
  <2>3. m["mode"] = "query"
    BY <2>2, Normalized
  <2>4. "query" \notin Keys(e) /\ "dialect_options" \notin Keys(e) /\ "db_schema" \notin Keys(e)
    BY <2>1 DEF QueryFields, PassThrough
  <2>5. /\ QueryFields \cap Keys(e) = QueryFields \cap Keys(q)
        /\ DialectFields \cap Keys(e) = {"init_sql"} \cap Keys(o)
    BY <2>1 DEF QueryFields, DialectFields, PassThrough
  <2>a. {"query", "dialect_options"} \subseteq Sections
    BY DEF Sections
  <2>6. /\ Keys(Section(m, "query")) = QueryFields \cap Keys(e)
        /\ \A k \in QueryFields \cap Keys(e) : Section(m, "query")[k] = e[k]
    BY <1>0, <2>4, <2>a, Flat
  <2>7. /\ Keys(Section(m, "dialect_options")) = DialectFields \cap Keys(e)
        /\ \A k \in DialectFields \cap Keys(e) : Section(m, "dialect_options")[k] = e[k]
    BY <1>0, <2>4, <2>a, Flat
  <2> HIDE DEF e, m, q, o
  <2>8. Only(Section(m, "query"), QueryFields) = Only(q, QueryFields)
    BY <2>1, <2>5, <2>6, SameOnly
  <2>9. Only(Section(m, "dialect_options"), DialectFields) = Without(Only(o, DialectFields), {"thick_mode"})
    <3>1. DialectFields = {"init_sql", "thick_mode"}
      BY DEF DialectFields
    <3>2. /\ Keys(Without(Only(o, DialectFields), {"thick_mode"})) = {"init_sql"} \cap Keys(o)
          /\ \A k \in {"init_sql"} \cap Keys(o) : Without(Only(o, DialectFields), {"thick_mode"})[k] = o[k]
      BY <3>1, Restricting
    <3>3. /\ Keys(Only(Section(m, "dialect_options"), DialectFields)) = {"init_sql"} \cap Keys(o)
          /\ \A k \in {"init_sql"} \cap Keys(o) : Only(Section(m, "dialect_options"), DialectFields)[k] = o[k]
      BY <2>1, <2>5, <2>7, Restricting
    <3> QED BY <3>2, <3>3 DEF Only, Without, Keys
  <2>10. Loads(m) = [mode |-> "query", what |-> Only(q, QueryFields),
                     options |-> Without(Only(o, DialectFields), {"thick_mode"})]
    BY <2>3, <2>8, <2>9 DEF Loads
  <2>11. Loads(n) = [mode |-> "query", what |-> Only(q, QueryFields), options |-> Only(o, DialectFields)]
    BY <1>2 DEF Loads, q, o
  <2>12. Loads(m) = [Loads(n) EXCEPT !.options = Without(@, {"thick_mode"})]
    BY <2>10, <2>11
  <2> QED BY <2>12 DEF m, e
<1> QED BY <1>1, <1>2

-----------------------------------------------------------------------------
(* The schema fills in the mode and the dialect, and renames db_schema.     *)
LEMMA Defaulted == ASSUME NEW src
  PROVE LET full == WithDefaults(src)
        IN  /\ Keys(full) \ {"dialect", "mode"} = Keys(src) \ {"dialect", "mode"}
            /\ \A k \in Keys(src) \ {"dialect", "mode"} : full[k] = src[k]
            /\ Get(full, "mode") = OrElse(Get(src, "mode"), SchemaMode(src))
            /\ Get(full, "dialect") = IF src["kind"] = "oracle" THEN OrElse(Get(src, "dialect"), "oracle")
                                      ELSE Get(src, "dialect")
<1> DEFINE d == IF src["kind"] = "oracle" THEN Set(src, "dialect", OrElse(Get(src, "dialect"), "oracle")) ELSE src
           mode == OrElse(Get(src, "mode"), SchemaMode(src))
<1>1. WithDefaults(src) = IF mode = "" THEN d ELSE Set(d, "mode", mode)
  BY DEF WithDefaults
<1>2. /\ Keys(d) \ {"dialect"} = Keys(src) \ {"dialect"}
      /\ \A k \in Keys(src) \ {"dialect"} : d[k] = src[k]
      /\ Get(d, "dialect") = IF src["kind"] = "oracle" THEN OrElse(Get(src, "dialect"), "oracle")
                             ELSE Get(src, "dialect")
  <2>1. CASE src["kind"] = "oracle"
    <3> DEFINE v == OrElse(Get(src, "dialect"), "oracle")
    <3>1. d = Set(src, "dialect", v)
      BY <2>1
    <3>2. /\ Keys(Set(src, "dialect", v)) = Keys(src) \cup {"dialect"}
          /\ Set(src, "dialect", v)["dialect"] = v
          /\ \A k \in Keys(src) : k # "dialect" => Set(src, "dialect", v)[k] = src[k]
      BY Setting
    <3> HIDE DEF v, d
    <3>3. Get(d, "dialect") = v
      BY <3>1, <3>2 DEF Get
    <3> QED BY <2>1, <3>1, <3>2, <3>3 DEF v
  <2>2. CASE src["kind"] # "oracle"
    BY <2>2
  <2> QED BY <2>1, <2>2
<1> HIDE DEF d
<1>3. mode = "" => Get(src, "mode") = ""
  BY DEF OrElse
<1>4. Get(d, "mode") = Get(src, "mode")
  <2>1. /\ "mode" \in Keys(d) <=> "mode" \in Keys(src)
        /\ "mode" \in Keys(src) => d["mode"] = src["mode"]
    BY <1>2
  <2> QED BY <2>1 DEF Get
<1> HIDE DEF mode
<1>5. CASE mode = ""
  BY <1>1, <1>2, <1>3, <1>4, <1>5 DEF mode
<1>6. CASE mode # ""
  <2>1. WithDefaults(src) = Set(d, "mode", mode)
    BY <1>1, <1>6
  <2>2. /\ Keys(Set(d, "mode", mode)) = Keys(d) \cup {"mode"}
        /\ Set(d, "mode", mode)["mode"] = mode
        /\ \A k \in Keys(d) : k # "mode" => Set(d, "mode", mode)[k] = d[k]
    BY Setting
  <2> QED BY <1>2, <2>1, <2>2 DEF Get, mode
<1> QED BY <1>5, <1>6

LEMMA Renaming == ASSUME NEW m
  PROVE /\ Keys(Renamed(m)) \ {"schema", "db_schema"} = Keys(m) \ {"schema", "db_schema"}
        /\ \A k \in Keys(m) \ {"schema", "db_schema"} : Renamed(m)[k] = m[k]
        /\ Keys(Renamed(m)) \cap {"schema", "db_schema"} = {} <=> Keys(m) \cap {"schema", "db_schema"} = {}
        /\ "schema" \in Keys(m) => Renamed(m) = m
        /\ "schema" \notin Keys(m) /\ "db_schema" \in Keys(m) =>
             "schema" \in Keys(Renamed(m)) /\ Renamed(m)["schema"] = m["db_schema"]
<1>1. CASE "db_schema" \in Keys(m) /\ "schema" \notin Keys(m)
  <2> DEFINE w == Without(m, {"db_schema"})
  <2>1. Renamed(m) = Set(w, "schema", m["db_schema"])
    BY <1>1 DEF Renamed
  <2>2. Keys(w) = Keys(m) \ {"db_schema"} /\ \A k \in Keys(w) : w[k] = m[k]
    BY Restricting
  <2>3. /\ Keys(Set(w, "schema", m["db_schema"])) = Keys(w) \cup {"schema"}
        /\ Set(w, "schema", m["db_schema"])["schema"] = m["db_schema"]
        /\ \A k \in Keys(w) : k # "schema" => Set(w, "schema", m["db_schema"])[k] = w[k]
    BY Setting
  <2> QED BY <1>1, <2>1, <2>2, <2>3
<1>2. CASE ~("db_schema" \in Keys(m) /\ "schema" \notin Keys(m))
  BY <1>2 DEF Renamed
<1> QED BY <1>1, <1>2

(* What the schema makes of a source that it knows.                         *)
InForm(src) == src["kind"] \in {"sqldb", "oracle"} /\ InSchema(WithDefaults(src))

LEMMA Dumping == ASSUME NEW src, InForm(src)
  PROVE LET d == Dumped(src, FALSE)
        IN  /\ Keys(d) \ {"schema", "db_schema", "dialect", "mode"} = Keys(src) \ {"schema", "db_schema", "dialect", "mode"}
            /\ \A k \in Keys(src) \ {"schema", "db_schema", "dialect", "mode", "catalog"} : d[k] = src[k]
            /\ "catalog" \in Keys(src) => d["catalog"] = Renamed(src["catalog"])
            /\ Get(d, "mode") = OrElse(Get(src, "mode"), SchemaMode(src))
            /\ Get(d, "dialect") = IF src["kind"] = "oracle" THEN OrElse(Get(src, "dialect"), "oracle")
                                    ELSE Get(src, "dialect")
            /\ Keys(d) \cap {"schema", "db_schema"} = {} <=> Keys(src) \cap {"schema", "db_schema"} = {}
<1> DEFINE full == WithDefaults(src)
           r == Renamed(full)
<1>1. /\ Keys(full) \ {"dialect", "mode"} = Keys(src) \ {"dialect", "mode"}
      /\ \A k \in Keys(src) \ {"dialect", "mode"} : full[k] = src[k]
      /\ Get(full, "mode") = OrElse(Get(src, "mode"), SchemaMode(src))
      /\ Get(full, "dialect") = IF src["kind"] = "oracle" THEN OrElse(Get(src, "dialect"), "oracle")
                                ELSE Get(src, "dialect")
  BY Defaulted
<1>2. Dumped(src, FALSE) = IF "catalog" \in Keys(src) THEN Set(r, "catalog", Renamed(full["catalog"])) ELSE r
  BY DEF Dumped, InForm
<1> HIDE DEF full
<1>3. /\ Keys(r) \ {"schema", "db_schema"} = Keys(full) \ {"schema", "db_schema"}
      /\ \A k \in Keys(full) \ {"schema", "db_schema"} : r[k] = full[k]
      /\ Keys(r) \cap {"schema", "db_schema"} = {} <=> Keys(full) \cap {"schema", "db_schema"} = {}
  BY Renaming
<1> HIDE DEF r
<1>4. "catalog" \in Keys(src) => full["catalog"] = src["catalog"] /\ "catalog" \in Keys(r)
  BY <1>1, <1>3
<1>5. LET d == Dumped(src, FALSE)
      IN  /\ Keys(d) = Keys(r)
          /\ \A k \in Keys(r) \ {"catalog"} : d[k] = r[k]
          /\ "catalog" \in Keys(src) => d["catalog"] = Renamed(src["catalog"])
  <2> DEFINE v == Renamed(full["catalog"])
  <2>1. /\ Keys(Set(r, "catalog", v)) = Keys(r) \cup {"catalog"}
        /\ Set(r, "catalog", v)["catalog"] = v
        /\ \A k \in Keys(r) : k # "catalog" => Set(r, "catalog", v)[k] = r[k]
    BY Setting
  <2> QED BY <1>2, <1>4, <2>1
<1> HIDE DEF r
<1>6. LET d == Dumped(src, FALSE)
      IN  Get(d, "mode") = Get(full, "mode") /\ Get(d, "dialect") = Get(full, "dialect")
  BY <1>3, <1>5 DEF Get
<1> QED BY <1>1, <1>3, <1>5, <1>6
LEMMA Got == ASSUME NEW f, NEW g, NEW k, k \in Keys(f) <=> k \in Keys(g), k \in Keys(f) => f[k] = g[k]
  PROVE  Get(f, k) = Get(g, k)
BY DEF Get

LEMMA Inferred == ASSUME NEW src, InForm(src), "kind" \in Keys(src), SameMode(src)
  PROVE  ShapeOf(Dumped(src, FALSE)) = ShapeOf(src)
<1> DEFINE d == Dumped(src, FALSE)
<1>1. /\ Keys(d) \ {"schema", "db_schema", "dialect", "mode"} = Keys(src) \ {"schema", "db_schema", "dialect", "mode"}
      /\ \A k \in Keys(src) \ {"schema", "db_schema", "dialect", "mode", "catalog"} : d[k] = src[k]
      /\ Get(d, "mode") = OrElse(Get(src, "mode"), SchemaMode(src))
      /\ Get(d, "dialect") = IF src["kind"] = "oracle" THEN OrElse(Get(src, "dialect"), "oracle")
                              ELSE Get(src, "dialect")
      /\ Keys(d) \cap {"schema", "db_schema"} = {} <=> Keys(src) \cap {"schema", "db_schema"} = {}
  BY Dumping
<1> HIDE DEF d
<1>2. d["kind"] = src["kind"]
  BY <1>1
<1>3. CASE src["kind"] = "oracle"
  <2>1. OrElse(Get(d, "dialect"), "oracle") = OrElse(Get(src, "dialect"), "oracle")
    BY <1>1, <1>3 DEF OrElse
  <2>2. OrElse(Get(d, "mode"), "query") = OrElse(Get(src, "mode"), "query")
    BY <1>1, <1>3 DEF OrElse, SchemaMode
  <2>3. ShapeOf(d) = Shape("oracle", OrElse(Get(d, "dialect"), "oracle"), OrElse(Get(d, "mode"), "query"))
    BY <1>2, <1>3 DEF ShapeOf
  <2>4. ShapeOf(src) = Shape("oracle", OrElse(Get(src, "dialect"), "oracle"), OrElse(Get(src, "mode"), "query"))
    BY <1>3 DEF ShapeOf
  <2> QED BY <2>1, <2>2, <2>3, <2>4 DEF d
<1>4. CASE src["kind"] = "sqldb"
  <2>1. Get(d, "dialect") = Get(src, "dialect")
    BY <1>1, <1>4
  <2>2. InferredMode(d) = InferredMode(src)
    <3>1. \A m : Get(m, "mode") # "" => InferredMode(m) = Get(m, "mode")
      BY DEF InferredMode, Get
    <3>2. CASE Get(src, "mode") # ""
      BY <1>1, <3>1, <3>2 DEF OrElse
    <3>3. CASE Get(src, "mode") = "" /\ SchemaMode(src) # ""
      BY <1>1, <1>4, <3>1, <3>3 DEF OrElse, SameMode
    <3>4. CASE Get(src, "mode") = "" /\ SchemaMode(src) = ""
      <4> DEFINE Q == {"query"} \cup QueryFields \cup DialectFields
                 C == {"catalog"} \cup CatalogFields
      <4>1. Get(d, "mode") = ""
        BY <1>1, <3>4 DEF OrElse
      <4>2. Keys(d) \cap Q = Keys(src) \cap Q
        <5>1. Q \cap {"schema", "db_schema", "dialect", "mode"} = {}
          BY DEF QueryFields, DialectFields
        <5> HIDE DEF Q
        <5> QED BY <1>1, <5>1
      <4>3. Keys(d) \cap C = {} <=> Keys(src) \cap C = {}
        <5>1. {"schema", "db_schema"} \subseteq C /\ C \cap {"dialect", "mode"} = {}
          BY DEF CatalogFields
        <5> HIDE DEF C
        <5> QED BY <1>1, <5>1
      <4> HIDE DEF Q, C
      <4>4. \A m : Get(m, "mode") = "" =>
              InferredMode(m) = IF Keys(m) \cap Q # {} THEN "query" ELSE IF Keys(m) \cap C # {} THEN "catalog" ELSE ""
        BY DEF InferredMode, Q, C
      <4> QED BY <3>4, <4>1, <4>2, <4>3, <4>4
    <3> QED BY <3>2, <3>3, <3>4
  <2>3. \A m : m["kind"] = "sqldb" => ShapeOf(m) = Shape("sqldb", OrElse(Get(m, "dialect"), "generic"), InferredMode(m))
    BY DEF ShapeOf
  <2> QED BY <1>2, <1>4, <2>1, <2>2, <2>3 DEF d
<1> QED BY <1>3, <1>4 DEF InForm

LEMMA DumpedRuns == ASSUME NEW src, InForm(src), "kind" \in Keys(src), SameMode(src), ParserAccepts(src)
  PROVE  WorkflowAccepts(Dumped(src, FALSE))
<1> DEFINE d == Dumped(src, FALSE)
           n == Normalize(d)
           o == Normalize(src)
<1>1. /\ Keys(d) \ {"schema", "db_schema", "dialect", "mode"} = Keys(src) \ {"schema", "db_schema", "dialect", "mode"}
      /\ \A k \in Keys(src) \ {"schema", "db_schema", "dialect", "mode", "catalog"} : d[k] = src[k]
      /\ "catalog" \in Keys(src) => d["catalog"] = Renamed(src["catalog"])
      /\ Keys(d) \cap {"schema", "db_schema"} = {} <=> Keys(src) \cap {"schema", "db_schema"} = {}
  BY Dumping
<1>2. /\ Parsed(o)
      /\ o["mode"] = "catalog" => CatalogGiven(o)
      /\ o["mode"] = "query" => QueriesGiven(o) /\ o["dialect"] = "oracle"
  BY DEF ParserAccepts
<1>3. ShapeOf(d) = ShapeOf(src)
  BY Inferred
<1> HIDE DEF d
<1>4. Get(o, "mode") \in {"catalog", "query"}
  BY <1>2 DEF Parsed, Executable
<1>5. /\ "mode" \in Keys(o) /\ "mode" \in Keys(n) /\ n["mode"] = o["mode"] /\ n["mode"] \in {"catalog", "query"}
      /\ n["dialect"] = o["dialect"] /\ {"dialect"} \subseteq Keys(o)
  <2>1. "mode" \in Keys(o) /\ o["mode"] \in {"catalog", "query"}
    BY <1>4 DEF Get
  <2> HIDE DEF n, o
  <2> QED BY <1>3, <2>1, Normalized DEF n, o
<1> DEFINE Same(s) == /\ Keys(Gathered(d, s)) = Keys(Gathered(src, s))
                      /\ \A k \in Keys(Gathered(d, s)) : Gathered(d, s)[k] = Gathered(src, s)[k]
<1>6. Same("query")
  <2>1. FieldsOf["query"] \cap {"schema", "db_schema", "dialect", "mode", "catalog"} = {}
    BY DEF FieldsOf, QueryFields
  <2>2. "query" \in Keys(d) <=> "query" \in Keys(src)
    BY <1>1
  <2>3. "query" \in Keys(src) => d["query"] = src["query"]
    BY <1>1
  <2>4. Section(d, "query") = Section(src, "query")
    BY <2>2, <2>3 DEF Section
  <2>5. FieldsOf["query"] \cap Keys(d) = FieldsOf["query"] \cap Keys(src)
    BY <1>1, <2>1
  <2>6. \A k \in FieldsOf["query"] \cap Keys(d) : d[k] = src[k]
    BY <1>1, <2>1, <2>5
  <2> QED BY <2>4, <2>5, <2>6, Gathering
<1>7. SectionOf(d, "query") = Gathered(d, "query") /\ SectionOf(src, "query") = Gathered(src, "query")
  BY DEF SectionOf
<1>8. {"query", "catalog"} \subseteq Sections
  BY DEF Sections
<1>9. /\ Keys(Section(n, "query")) = Keys(Section(o, "query"))
      /\ \A k \in Keys(Section(n, "query")) : Section(n, "query")[k] = Section(o, "query")[k]
      /\ "query" \in Keys(n) <=> "query" \in Keys(o)
  BY <1>6, <1>7, <1>8, Sectioned
<1>10. QueriesGiven(n) <=> QueriesGiven(o)
  <2>1. Get(Section(n, "query"), "queries") = Get(Section(o, "query"), "queries")
    BY <1>9, Got
  <2> QED BY <2>1 DEF QueriesGiven
<1>11. "catalog" \in Keys(n) <=> "catalog" \in Keys(o)
  <2>1. \A m : Keys(Renamed(m)) = {} <=> Keys(m) = {}
    <3>1. SUFFICES ASSUME NEW m PROVE Keys(Renamed(m)) = {} <=> Keys(m) = {}
      OBVIOUS
    <3> QED BY Renaming
  <2>2. Keys(Section(d, "catalog")) = {} <=> Keys(Section(src, "catalog")) = {}
    <3>1. "catalog" \in Keys(d) <=> "catalog" \in Keys(src)
      BY <1>1
    <3> QED BY <1>1, <2>1, <3>1 DEF Section
  <2>3. FieldsOf["catalog"] \cap Keys(d) = {} <=> FieldsOf["catalog"] \cap Keys(src) = {}
    <3>1. {"schema", "db_schema"} \subseteq FieldsOf["catalog"] /\ FieldsOf["catalog"] \cap {"dialect", "mode"} = {}
      BY DEF FieldsOf, CatalogFields
    <3> QED BY <1>1, <3>1
  <2>4. Keys(Gathered(d, "catalog")) = {} <=> Keys(Gathered(src, "catalog")) = {}
    BY <2>2, <2>3, Gathering
  <2>5. Keys(SectionOf(d, "catalog")) = {} <=> Keys(SectionOf(src, "catalog")) = {}
    BY <2>1, <2>4 DEF SectionOf
  <2> QED BY <1>8, <2>5, Sectioned
<1>12. o["mode"] = "catalog" => "catalog" \in Keys(o)
  BY <1>2, EmptyKeys DEF CatalogGiven, Section
<1>13. InSchema(n)
  <2>1. InSchema(o)
    BY <1>2 DEF Parsed
  <2>2. "query" \in Keys(n) => Get(n["query"], "queries") \notin {"", "none"}
    <3>1. "query" \in Keys(n) => Get(n["query"], "queries") = Get(o["query"], "queries")
      BY <1>9, Got DEF Section
    <3> QED BY <1>9, <2>1, <3>1 DEF InSchema
  <2>3. Contracted(n)
    <3>1. "payload_contract" \in Keys(n) <=> "payload_contract" \in Keys(o)
      BY <1>1, Normalized DEF PassThrough
    <3>2. "payload_contract" \in Keys(n) => n["payload_contract"] = o["payload_contract"]
      BY <1>1, Normalized DEF PassThrough
    <3> QED BY <2>1, <3>1, <3>2 DEF InSchema, Contracted
  <2> HIDE DEF n, o
  <2> QED BY <1>5, <2>1, <2>2, <2>3 DEF InSchema
<1>14. Executable(n)
  <2>1. Executable(o)
    BY <1>2 DEF Parsed
  <2> HIDE DEF n, o
  <2> QED BY <1>5, <2>1 DEF Executable, Get
<1> HIDE DEF n, o
<1>15. Parsed(n) /\ DialectAccepts(n) /\ ModeAccepts(n) /\ QueryRuns(n)
  BY <1>2, <1>5, <1>10, <1>11, <1>12, <1>13, <1>14 DEF Parsed, DialectAccepts, ModeAccepts, QueryRuns
<1> QED BY <1>15 DEF WorkflowAccepts, n, d

LEMMA RenamedReads == ASSUME NEW m, NEW k, k # "db_schema"
  PROVE /\ k \in Keys(Renamed(m)) <=> k \in Keys(m) \/ (k = "schema" /\ "db_schema" \in Keys(m))
        /\ k \in Keys(m) => Renamed(m)[k] = m[k]
        /\ k = "schema" /\ k \notin Keys(m) /\ "db_schema" \in Keys(m) => Renamed(m)[k] = m["db_schema"]
<1>1. CASE k = "schema"
  BY <1>1, Renaming
<1>2. CASE k # "schema"
  BY <1>2, Renaming
<1> QED BY <1>1, <1>2

(* The two sources say the same in their sections.                          *)
Agree(f, g, keys) == \A k \in keys : (k \in Keys(f) <=> k \in Keys(g)) /\ (k \in Keys(f) => f[k] = g[k])
Read == CatalogFields \ {"db_schema"}

LEMMA DumpedTop == ASSUME NEW src, InForm(src)
  PROVE /\ Agree(Dumped(src, FALSE), src, QueryFields \cup DialectFields \cup PassThrough \cup {"query", "dialect_options"})
        /\ Agree(Dumped(src, FALSE), Renamed(src), Read)
        /\ Agree(Section(Dumped(src, FALSE), "catalog"), Renamed(Section(src, "catalog")), Read)
<1> DEFINE d == Dumped(src, FALSE)
           full == WithDefaults(src)
           r == Renamed(full)
           Q == QueryFields \cup DialectFields \cup PassThrough \cup {"query", "dialect_options"}
<1>1. /\ Keys(d) \ {"schema", "db_schema", "dialect", "mode"} = Keys(src) \ {"schema", "db_schema", "dialect", "mode"}
      /\ \A k \in Keys(src) \ {"schema", "db_schema", "dialect", "mode", "catalog"} : d[k] = src[k]
      /\ "catalog" \in Keys(src) => d["catalog"] = Renamed(src["catalog"])
  BY Dumping
<1>2. Agree(d, src, Q)
  <2>1. Q \cap {"schema", "db_schema", "dialect", "mode", "catalog"} = {}
    BY DEF QueryFields, DialectFields, PassThrough
  <2> HIDE DEF Q, d
  <2> QED BY <1>1, <2>1 DEF Agree
<1>3. Agree(d, Renamed(src), Read)
  <2>1. /\ Keys(full) \ {"dialect", "mode"} = Keys(src) \ {"dialect", "mode"}
        /\ \A k \in Keys(src) \ {"dialect", "mode"} : full[k] = src[k]
    BY Defaulted
  <2>2. d = IF "catalog" \in Keys(src) THEN Set(r, "catalog", Renamed(full["catalog"])) ELSE r
    BY DEF Dumped, InForm
  <2> HIDE DEF d, full
  <2>3. \A k \in Read : (k \in Keys(d) <=> k \in Keys(r)) /\ (k \in Keys(d) => d[k] = r[k])
    <3>1. "catalog" \notin Read
      BY DEF Read, CatalogFields
    <3> HIDE DEF r
    <3>2. \A v : /\ Keys(Set(r, "catalog", v)) = Keys(r) \cup {"catalog"}
                 /\ \A k \in Keys(r) : k # "catalog" => Set(r, "catalog", v)[k] = r[k]
      BY Setting
    <3> QED BY <2>2, <3>1, <3>2
  <2>4. ASSUME NEW k \in Read
        PROVE  (k \in Keys(r) <=> k \in Keys(Renamed(src))) /\ (k \in Keys(r) => r[k] = Renamed(src)[k])
    <3>1. k # "db_schema" /\ k \notin {"dialect", "mode"} /\ "db_schema" \notin {"dialect", "mode"}
      BY DEF Read, CatalogFields
    <3>2. (k \in Keys(full) <=> k \in Keys(src)) /\ (k \in Keys(src) => full[k] = src[k])
      BY <2>1, <3>1
    <3>3. ("db_schema" \in Keys(full) <=> "db_schema" \in Keys(src)) /\ ("db_schema" \in Keys(src) => full["db_schema"] = src["db_schema"])
      BY <2>1
    <3> QED BY <3>1, <3>2, <3>3, RenamedReads
  <2> HIDE DEF r
  <2> QED BY <2>3, <2>4 DEF Agree
<1>4. Agree(Section(d, "catalog"), Renamed(Section(src, "catalog")), Read)
  <2>1. "catalog" \in Keys(d) <=> "catalog" \in Keys(src)
    BY <1>1
  <2> HIDE DEF d
  <2>2. CASE "catalog" \in Keys(src)
    BY <1>1, <2>1, <2>2 DEF Section, Agree
  <2>3. CASE "catalog" \notin Keys(src)
    <3>1. Section(d, "catalog") = None /\ Section(src, "catalog") = None
      BY <2>1, <2>3 DEF Section
    <3>2. Renamed(None) = None
      BY EmptyKeys DEF Renamed
    <3> QED BY <3>1, <3>2, EmptyKeys DEF Agree
  <2> QED BY <2>2, <2>3
<1> QED BY <1>2, <1>3, <1>4

(* Where each field of the catalog section comes from.                      *)
LEMMA CatalogReads == ASSUME NEW src, NEW k \in Read
  PROVE LET s == SectionOf(src, "catalog")
            b == Section(src, "catalog")
        IN  /\ k # "schema" => (k \in Keys(s) <=> k \in Keys(b) \cup Keys(src))
            /\ k \in Keys(b) => k \in Keys(s) /\ s[k] = b[k]
            /\ k \in Keys(src) \ Keys(b) => k \in Keys(s) /\ s[k] = src[k]
            /\ k = "schema" => (k \in Keys(s) <=> {"schema", "db_schema"} \cap (Keys(b) \cup Keys(src)) # {})
            /\ k = "schema" /\ k \notin Keys(b) \cup Keys(src) =>
                 /\ "db_schema" \in Keys(b) => s[k] = b["db_schema"]
                 /\ "db_schema" \in Keys(src) \ Keys(b) => s[k] = src["db_schema"]
<1> DEFINE b == Section(src, "catalog")
           g == Gathered(src, "catalog")
<1>1. k \in CatalogFields /\ "db_schema" \in CatalogFields /\ k # "db_schema"
  BY DEF Read, CatalogFields
<1>2. SectionOf(src, "catalog") = Renamed(g) /\ FieldsOf["catalog"] = CatalogFields
  BY DEF SectionOf, FieldsOf
<1>3. /\ Keys(g) = Keys(b) \cup (CatalogFields \cap Keys(src))
      /\ \A j \in Keys(b) : g[j] = b[j]
      /\ \A j \in (CatalogFields \cap Keys(src)) \ Keys(b) : g[j] = src[j]
  BY <1>2, Gathering
<1> HIDE DEF g, b
<1>4. /\ k \in Keys(Renamed(g)) <=> k \in Keys(g) \/ (k = "schema" /\ "db_schema" \in Keys(g))
      /\ k \in Keys(g) => Renamed(g)[k] = g[k]
      /\ k = "schema" /\ k \notin Keys(g) /\ "db_schema" \in Keys(g) => Renamed(g)[k] = g["db_schema"]
  BY <1>1, RenamedReads
<1>5. /\ k \in Keys(g) <=> k \in Keys(b) \cup Keys(src)
      /\ "db_schema" \in Keys(g) <=> "db_schema" \in Keys(b) \cup Keys(src)
      /\ k \in Keys(b) => g[k] = b[k]
      /\ k \in Keys(src) \ Keys(b) => g[k] = src[k]
      /\ "db_schema" \in Keys(b) => g["db_schema"] = b["db_schema"]
      /\ "db_schema" \in Keys(src) \ Keys(b) => g["db_schema"] = src["db_schema"]
  BY <1>1, <1>3
<1> QED BY <1>2, <1>4, <1>5 DEF b

(* What is read of the catalog is the same before and after the schema.     *)
LEMMA DumpedCatalog == ASSUME NEW src, InForm(src), OneSchema(src)
  PROVE Agree(SectionOf(Dumped(src, FALSE), "catalog"), SectionOf(src, "catalog"), Read)
<1> DEFINE d == Dumped(src, FALSE)
           a == Section(d, "catalog")
           b == Section(src, "catalog")
           s == SectionOf(d, "catalog")
           t == SectionOf(src, "catalog")
<1>1. Agree(d, Renamed(src), Read) /\ Agree(a, Renamed(b), Read)
  BY DumpedTop
<1>2. Keys(d) \cap {"schema", "db_schema"} = {} <=> Keys(src) \cap {"schema", "db_schema"} = {}
  BY Dumping
<1>3. Keys(a) \cap {"schema", "db_schema"} = {} <=> Keys(b) \cap {"schema", "db_schema"} = {}
  <2>1. "catalog" \in Keys(d) <=> "catalog" \in Keys(src)
    <3>1. Keys(d) \ {"schema", "db_schema", "dialect", "mode"} = Keys(src) \ {"schema", "db_schema", "dialect", "mode"}
      BY Dumping
    <3> QED BY <3>1
  <2>2. "catalog" \in Keys(src) => d["catalog"] = Renamed(src["catalog"])
    BY Dumping
  <2> HIDE DEF d
  <2> QED BY <2>1, <2>2, Renaming, EmptyKeys DEF Section
<1> HIDE DEF d, a, b, s, t
<1>4. ASSUME NEW k \in Read
      PROVE  (k \in Keys(s) <=> k \in Keys(t)) /\ (k \in Keys(s) => s[k] = t[k])
  <2>0. k # "db_schema" /\ "schema" \in Read
    BY DEF Read, CatalogFields
  <2>1. /\ k # "schema" => (k \in Keys(s) <=> k \in Keys(a) \cup Keys(d))
        /\ k \in Keys(a) => k \in Keys(s) /\ s[k] = a[k]
        /\ k \in Keys(d) \ Keys(a) => k \in Keys(s) /\ s[k] = d[k]
        /\ k = "schema" => (k \in Keys(s) <=> {"schema", "db_schema"} \cap (Keys(a) \cup Keys(d)) # {})
    BY CatalogReads DEF s, a
  <2>2. /\ k # "schema" => (k \in Keys(t) <=> k \in Keys(b) \cup Keys(src))
        /\ k \in Keys(b) => k \in Keys(t) /\ t[k] = b[k]
        /\ k \in Keys(src) \ Keys(b) => k \in Keys(t) /\ t[k] = src[k]
        /\ k = "schema" => (k \in Keys(t) <=> {"schema", "db_schema"} \cap (Keys(b) \cup Keys(src)) # {})
        /\ k = "schema" /\ k \notin Keys(b) \cup Keys(src) =>
             /\ "db_schema" \in Keys(b) => t[k] = b["db_schema"]
             /\ "db_schema" \in Keys(src) \ Keys(b) => t[k] = src["db_schema"]
    BY CatalogReads DEF t, b
  <2>3. /\ k \in Keys(d) <=> k \in Keys(Renamed(src))
        /\ k \in Keys(d) => d[k] = Renamed(src)[k]
        /\ k \in Keys(a) <=> k \in Keys(Renamed(b))
        /\ k \in Keys(a) => a[k] = Renamed(b)[k]
    BY <1>1 DEF Agree
  <2>4. /\ k \in Keys(Renamed(src)) <=> k \in Keys(src) \/ (k = "schema" /\ "db_schema" \in Keys(src))
        /\ k \in Keys(src) => Renamed(src)[k] = src[k]
        /\ k = "schema" /\ k \notin Keys(src) /\ "db_schema" \in Keys(src) => Renamed(src)[k] = src["db_schema"]
    BY <2>0, RenamedReads
  <2>5. /\ k \in Keys(Renamed(b)) <=> k \in Keys(b) \/ (k = "schema" /\ "db_schema" \in Keys(b))
        /\ k \in Keys(b) => Renamed(b)[k] = b[k]
        /\ k = "schema" /\ k \notin Keys(b) /\ "db_schema" \in Keys(b) => Renamed(b)[k] = b["db_schema"]
    BY <2>0, RenamedReads
  <2>6. CASE k # "schema"
    BY <2>1, <2>2, <2>3, <2>4, <2>5, <2>6
  <2>7. CASE k = "schema"
    <3>1. "schema" \in Keys(src) /\ "db_schema" \in Keys(b) => "schema" \in Keys(b)
      BY DEF OneSchema, b
    <3>2. k \in Keys(s) <=> k \in Keys(t)
      BY <1>2, <1>3, <2>1, <2>2, <2>7
    <3>3. k \in Keys(s) => k \in Keys(a) \cup Keys(d)
      BY <2>2, <2>3, <2>4, <2>5, <2>7, <3>2
    <3>4. CASE k \in Keys(b)
      BY <2>1, <2>2, <2>3, <2>5, <2>7, <3>2, <3>4
    <3>5. CASE k \notin Keys(b) /\ "db_schema" \in Keys(b)
      BY <2>1, <2>2, <2>3, <2>5, <2>7, <3>1, <3>2, <3>5
    <3>6. CASE k \notin Keys(b) /\ "db_schema" \notin Keys(b)
      BY <2>1, <2>2, <2>3, <2>4, <2>5, <2>7, <3>2, <3>3, <3>6
    <3> QED BY <3>4, <3>5, <3>6
  <2> QED BY <2>6, <2>7
<1> QED BY <1>4 DEF Agree, s, t, d

(* Two sources mean the same load.                                          *)
Alike(d, e) ==
  /\ ShapeOf(d)["dialect"] = ShapeOf(e)["dialect"] /\ Get(ShapeOf(d), "mode") = Get(ShapeOf(e), "mode")
  /\ Agree(SectionOf(d, "catalog"), SectionOf(e, "catalog"), Read)
  /\ Agree(SectionOf(d, "query"), SectionOf(e, "query"), QueryFields)
  /\ Keys(SectionOf(d, "query")) = {} <=> Keys(SectionOf(e, "query")) = {}
  /\ Agree(SectionOf(d, "dialect_options"), SectionOf(e, "dialect_options"), DialectFields)
  /\ Agree(d, e, {"payload_contract"})

LEMMA Chained == ASSUME NEW d, NEW e, NEW f, Alike(d, e), Alike(e, f)
  PROVE Alike(e, d) /\ Alike(d, f)
BY DEF Alike, Agree

LEMMA AgreeOnly == ASSUME NEW f, NEW g, NEW keys, Agree(f, g, keys)
  PROVE Only(f, keys) = Only(g, keys) /\ \A k \in keys : Get(f, k) = Get(g, k)
BY DEF Agree, Only, Get

LEMMA AgreeSections == ASSUME NEW d, NEW e, NEW s \in Sections, NEW keys, Agree(SectionOf(d, s), SectionOf(e, s), keys)
  PROVE Agree(Section(Normalize(d), s), Section(Normalize(e), s), keys)
BY Sectioned DEF Agree

LEMMA AlikeLoads == ASSUME NEW d, NEW e, Alike(d, e), ParserAccepts(d)
  PROVE ParserAccepts(e) /\ Loads(Normalize(e)) = Loads(Normalize(d))
<1> DEFINE n == Normalize(d)
           m == Normalize(e)
<1>1. /\ Parsed(n)
      /\ n["mode"] = "catalog" => CatalogGiven(n)
      /\ n["mode"] = "query" => QueriesGiven(n) /\ n["dialect"] = "oracle"
  BY DEF ParserAccepts
<1>2. /\ "dialect" \in Keys(n) /\ "dialect" \in Keys(m) /\ n["dialect"] = m["dialect"]
  BY Normalized DEF Alike
<1>3. /\ Get(n, "mode") = Get(ShapeOf(d), "mode") /\ Get(m, "mode") = Get(ShapeOf(e), "mode")
  BY Normalized, Got
<1>4. {"catalog", "query", "dialect_options"} \subseteq Sections
  BY DEF Sections
<1>5. /\ Agree(Section(n, "catalog"), Section(m, "catalog"), Read)
      /\ Agree(Section(n, "query"), Section(m, "query"), QueryFields)
      /\ Agree(Section(n, "dialect_options"), Section(m, "dialect_options"), DialectFields)
  BY <1>4, AgreeSections DEF Alike
<1>6. "query" \in Keys(n) <=> "query" \in Keys(m)
  BY <1>4, Sectioned DEF Alike
<1>7. /\ "payload_contract" \in Keys(n) <=> "payload_contract" \in Keys(m)
      /\ "payload_contract" \in Keys(n) => n["payload_contract"] = m["payload_contract"]
  BY Normalized DEF Alike, Agree, PassThrough
<1> HIDE DEF n, m
<1>8. Get(m, "mode") = Get(n, "mode") /\ Get(n, "mode") \in {"catalog", "query"}
  BY <1>1, <1>3 DEF Alike, Parsed, Executable
<1>9. "mode" \in Keys(n) /\ "mode" \in Keys(m) /\ n["mode"] = m["mode"] /\ n["mode"] \in {"catalog", "query"}
  BY <1>8 DEF Get
<1>10. /\ Only(Section(n, "catalog"), Read) = Only(Section(m, "catalog"), Read)
       /\ Only(Section(n, "query"), QueryFields) = Only(Section(m, "query"), QueryFields)
       /\ Only(Section(n, "dialect_options"), DialectFields) = Only(Section(m, "dialect_options"), DialectFields)
       /\ \A k \in Read : Get(Section(n, "catalog"), k) = Get(Section(m, "catalog"), k)
       /\ \A k \in QueryFields : Get(Section(n, "query"), k) = Get(Section(m, "query"), k)
  BY <1>5, AgreeOnly
<1>11. {"schemas", "schema", "tables"} \subseteq Read /\ "queries" \in QueryFields
  BY DEF Read, CatalogFields, QueryFields
<1>12. Loads(m) = Loads(n)
  BY <1>9, <1>10 DEF Loads, Read
<1>13. CatalogGiven(n) <=> CatalogGiven(m)
  BY <1>10, <1>11 DEF CatalogGiven
<1>14. Get(Section(n, "query"), "queries") = Get(Section(m, "query"), "queries")
  BY <1>10, <1>11
<1>15. QueriesGiven(n) <=> QueriesGiven(m)
  BY <1>14 DEF QueriesGiven
<1>16. InSchema(m)
  <2>1. InSchema(n)
    BY <1>1 DEF Parsed
  <2>2. "query" \in Keys(m) => Get(m["query"], "queries") \notin {"", "none"}
    BY <1>6, <1>14, <2>1 DEF InSchema, Section
  <2>3. Contracted(m)
    BY <1>7, <2>1 DEF InSchema, Contracted
  <2> QED BY <1>2, <1>9, <2>1, <2>2, <2>3 DEF InSchema
<1>17. Executable(m)
  BY <1>1, <1>2, <1>8 DEF Parsed, Executable
<1>18. ParserAccepts(e)
  BY <1>1, <1>2, <1>9, <1>13, <1>15, <1>16, <1>17 DEF ParserAccepts, Parsed, m
<1> QED BY <1>12, <1>18 DEF n, m

(* The schema changes nothing of it.                                        *)
LEMMA DumpedAlike == ASSUME NEW src, "kind" \in Keys(src), SameMode(src), OneSchema(src)
  PROVE Alike(Dumped(src, FALSE), src)
<1> DEFINE d == Dumped(src, FALSE)
<1>1. CASE ~InForm(src)
  <2>1. Dumped(src, FALSE) = src
    BY <1>1 DEF Dumped, InForm
  <2> QED BY <2>1 DEF Alike, Agree
<1>2. CASE InForm(src)
  <2>1. ShapeOf(d) = ShapeOf(src)
    BY <1>2, Inferred
  <2>2. Agree(SectionOf(d, "catalog"), SectionOf(src, "catalog"), Read)
    BY <1>2, DumpedCatalog
  <2>3. Agree(d, src, QueryFields \cup DialectFields \cup PassThrough \cup {"query", "dialect_options"})
    BY <1>2, DumpedTop
  <2> HIDE DEF d
  <2>4. FieldsOf["query"] = QueryFields /\ FieldsOf["dialect_options"] = DialectFields
    BY DEF FieldsOf
  <2>5. ASSUME NEW s \in {"query", "dialect_options"}
        PROVE  /\ Keys(SectionOf(d, s)) = Keys(SectionOf(src, s))
               /\ \A k \in Keys(SectionOf(d, s)) : SectionOf(d, s)[k] = SectionOf(src, s)[k]
    <3>1. /\ s \in Keys(d) <=> s \in Keys(src)
          /\ s \in Keys(d) => d[s] = src[s]
      BY <2>3 DEF Agree
    <3>2. Section(d, s) = Section(src, s)
      BY <3>1 DEF Section
    <3>3. /\ FieldsOf[s] \cap Keys(d) = FieldsOf[s] \cap Keys(src)
          /\ \A k \in FieldsOf[s] \cap Keys(src) : d[k] = src[k]
      BY <2>3, <2>4 DEF Agree
    <3>4. Only(d, FieldsOf[s]) = Only(src, FieldsOf[s])
      BY <3>3, SameOnly
    <3>5. Gathered(d, s) = Gathered(src, s)
      BY <3>2, <3>4 DEF Gathered
    <3>6. \A m : SectionOf(m, s) = Gathered(m, s)
      BY DEF SectionOf
    <3> QED BY <3>5, <3>6
  <2>6. Agree(d, src, {"payload_contract"})
    BY <2>3 DEF Agree, PassThrough
  <2>7. Alike(d, src)
    BY <2>1, <2>2, <2>5, <2>6 DEF Alike, Agree
  <2> QED BY <2>7 DEF d
<1> QED BY <1>1, <1>2

(* The canonical layout, key by key.                                        *)
TopFieldsOf == CatalogFields \cup QueryFields \cup DialectFields

LEMMA FieldsTop == \A s \in Sections : FieldsOf[s] \subseteq TopFieldsOf
<1>1. /\ FieldsOf["catalog"] = CatalogFields /\ FieldsOf["query"] = QueryFields
      /\ FieldsOf["dialect_options"] = DialectFields
  BY DEF FieldsOf
<1> QED BY <1>1 DEF Sections, TopFieldsOf

LEMMA Canonicalized == ASSUME NEW src, "mode" \in Keys(Normalize(src)), ShapeOf(src)["kind"] \in {"sqldb", "oracle"}
  PROVE LET c == Canonical(src)
            n == Normalize(src)
        IN  /\ {"kind", "dialect", "mode"} \subseteq Keys(c)
            /\ c["kind"] = "sqldb" /\ c["dialect"] = n["dialect"] /\ c["mode"] = n["mode"]
            /\ \A s \in Sections : (s \in Keys(c) <=> s \in Keys(n)) /\ (s \in Keys(c) => c[s] = n[s])
            /\ TopFieldsOf \cap Keys(c) = {}
            /\ Agree(c, src, PassThrough)
<1> DEFINE n == Normalize(src)
           rest == Without(src, TopFieldsOf \cup Sections)
           laid == Overlay(n, rest)
           c == IF laid["kind"] = "oracle" THEN Set(laid, "kind", "sqldb") ELSE laid
<1>1. Canonical(src) = c
  <2>1. CatalogFields \cup QueryFields \cup DialectFields \cup Sections = TopFieldsOf \cup Sections
    BY DEF TopFieldsOf
  <2> QED BY <2>1 DEF Canonical
<1>2. /\ Keys(rest) = Keys(src) \ (TopFieldsOf \cup Sections)
      /\ \A k \in Keys(rest) : rest[k] = src[k]
  BY Restricting
<1>3. Keys(n) \cap TopFieldsOf = {}
  <2>1. Keys(n) \subseteq {"kind", "dialect", "mode"} \cup Sections \cup PassThrough
    <3>1. Keys(ShapeOf(src)) \subseteq {"kind", "dialect", "mode"}
      BY DEF ShapeOf, Shape, Keys
    <3>2. Keys(SectionsOf(src)) \subseteq Sections
      BY DEF SectionsOf, Keys
    <3>3. Keys(Only(src, PassThrough)) \subseteq PassThrough
      BY Restricting
    <3>4. Keys(n) = Keys(ShapeOf(src)) \cup (Keys(SectionsOf(src)) \cup Keys(Only(src, PassThrough)))
      BY Overlaying DEF Normalize
    <3> QED BY <3>1, <3>2, <3>3, <3>4
  <2>2. ({"kind", "dialect", "mode"} \cup Sections \cup PassThrough) \cap TopFieldsOf = {}
    BY DEF TopFieldsOf, CatalogFields, QueryFields, DialectFields, Sections, PassThrough
  <2> QED BY <2>1, <2>2
<1>4. /\ {"kind", "dialect", "mode"} \subseteq Keys(n) /\ n["kind"] \in {"sqldb", "oracle"}
      /\ \A k \in PassThrough : (k \in Keys(n) <=> k \in Keys(src)) /\ (k \in Keys(src) => n[k] = src[k])
  BY Normalized
<1> HIDE DEF n, rest
<1>5. /\ Keys(laid) = Keys(n) \cup Keys(rest)
      /\ \A k \in Keys(n) : laid[k] = n[k]
      /\ \A k \in Keys(rest) \ Keys(n) : laid[k] = rest[k]
  BY Overlaying
<1> HIDE DEF laid
<1>6. laid["kind"] \in {"sqldb", "oracle"} /\ "kind" \in Keys(laid)
  BY <1>4, <1>5
<1>7. /\ Keys(c) = Keys(laid) /\ c["kind"] = "sqldb"
      /\ \A k \in Keys(laid) \ {"kind"} : c[k] = laid[k]
  <2>1. /\ Keys(Set(laid, "kind", "sqldb")) = Keys(laid) \cup {"kind"}
        /\ Set(laid, "kind", "sqldb")["kind"] = "sqldb"
        /\ \A k \in Keys(laid) : k # "kind" => Set(laid, "kind", "sqldb")[k] = laid[k]
    BY Setting
  <2> QED BY <1>6, <2>1
<1> HIDE DEF c
<1>8. "kind" \notin Sections \cup PassThrough
  BY DEF Sections, PassThrough
<1>9. TopFieldsOf \cap Keys(c) = {}
  BY <1>2, <1>3, <1>5, <1>7
<1>10. c["dialect"] = n["dialect"] /\ c["mode"] = n["mode"] /\ {"kind", "dialect", "mode"} \subseteq Keys(c)
  BY <1>4, <1>5, <1>7
<1>11. \A s \in Sections : (s \in Keys(c) <=> s \in Keys(n)) /\ (s \in Keys(c) => c[s] = n[s])
  BY <1>2, <1>5, <1>7, <1>8
<1>12. Agree(c, src, PassThrough)
  <2>1. ASSUME NEW k \in PassThrough
        PROVE  (k \in Keys(c) <=> k \in Keys(src)) /\ (k \in Keys(c) => c[k] = src[k])
    <3>1. k \in Keys(c) <=> k \in Keys(src)
      BY <1>2, <1>4, <1>5, <1>7
    <3>2. k \in Keys(c) => c[k] = n[k]
      BY <1>4, <1>5, <1>7, <1>8, <3>1
    <3> QED BY <1>4, <3>1, <3>2
  <2> QED BY <2>1 DEF Agree
<1> QED BY <1>1, <1>7, <1>9, <1>10, <1>11, <1>12 DEF n

Shaped(src) == Get(ShapeOf(src), "mode") # "" /\ ShapeOf(src)["dialect"] # "" /\ ShapeOf(src)["kind"] \in {"sqldb", "oracle"}

LEMMA CanonicalAlike == ASSUME NEW src, "mode" \in Keys(Normalize(src)), Shaped(src)
  PROVE Alike(Canonical(src), src)
<1> DEFINE c == Canonical(src)
           n == Normalize(src)
<1>1. /\ {"kind", "dialect", "mode"} \subseteq Keys(c)
      /\ c["kind"] = "sqldb" /\ c["dialect"] = n["dialect"] /\ c["mode"] = n["mode"]
      /\ \A s \in Sections : (s \in Keys(c) <=> s \in Keys(n)) /\ (s \in Keys(c) => c[s] = n[s])
      /\ TopFieldsOf \cap Keys(c) = {}
      /\ Agree(c, src, PassThrough)
  BY Canonicalized DEF Shaped
<1>2. n["mode"] # "" /\ n["dialect"] # "" /\ Get(ShapeOf(src), "mode") = n["mode"] /\ ShapeOf(src)["dialect"] = n["dialect"]
  BY Normalized DEF Get, Shaped
<1> HIDE DEF c
<1>3. \A s \in Sections : Section(c, s) = Section(n, s)
  BY <1>1 DEF Section
<1> HIDE DEF n
<1>4. ShapeOf(c)["dialect"] = ShapeOf(src)["dialect"] /\ Get(ShapeOf(c), "mode") = Get(ShapeOf(src), "mode")
  <2>1. Get(c, "dialect") = n["dialect"] /\ Get(c, "mode") = n["mode"]
    BY <1>1 DEF Get
  <2>2. ShapeOf(c) = Shape("sqldb", n["dialect"], n["mode"])
    <3>1. OrElse(Get(c, "dialect"), "generic") = n["dialect"]
      BY <1>2, <2>1 DEF OrElse
    <3>2. InferredMode(c) = n["mode"]
      BY <1>1, <1>2, <2>1 DEF InferredMode
    <3> QED BY <1>1, <3>1, <3>2 DEF ShapeOf
  <2>3. /\ Keys(Shape("sqldb", n["dialect"], n["mode"])) = {"kind", "dialect", "mode"}
        /\ Shape("sqldb", n["dialect"], n["mode"])["dialect"] = n["dialect"]
        /\ Shape("sqldb", n["dialect"], n["mode"])["mode"] = n["mode"]
    BY <1>2 DEF Shape, Keys
  <2> QED BY <1>2, <2>2, <2>3 DEF Get
<1>5. ASSUME NEW s \in Sections
      PROVE  /\ Keys(Gathered(c, s)) = Keys(SectionOf(src, s))
             /\ \A k \in Keys(SectionOf(src, s)) : Gathered(c, s)[k] = SectionOf(src, s)[k]
  <2>1. /\ Keys(Section(n, s)) = Keys(SectionOf(src, s))
        /\ \A k \in Keys(SectionOf(src, s)) : Section(n, s)[k] = SectionOf(src, s)[k]
    BY Sectioned DEF n
  <2>2. FieldsOf[s] \subseteq TopFieldsOf
    BY FieldsTop
  <2>3. /\ Keys(Gathered(c, s)) = Keys(Section(c, s)) \cup (FieldsOf[s] \cap Keys(c))
        /\ \A k \in Keys(Section(c, s)) : Gathered(c, s)[k] = Section(c, s)[k]
    BY Gathering
  <2>4. FieldsOf[s] \cap Keys(c) = {}
    BY <1>1, <2>2
  <2> QED BY <1>3, <2>1, <2>3, <2>4
<1>6. /\ Keys(SectionOf(c, "query")) = Keys(SectionOf(src, "query"))
      /\ Agree(SectionOf(c, "query"), SectionOf(src, "query"), QueryFields)
      /\ Agree(SectionOf(c, "dialect_options"), SectionOf(src, "dialect_options"), DialectFields)
  <2>1. SectionOf(c, "query") = Gathered(c, "query") /\ SectionOf(c, "dialect_options") = Gathered(c, "dialect_options")
    BY DEF SectionOf
  <2> QED BY <1>5, <2>1 DEF Agree, Sections
<1>7. Agree(SectionOf(c, "catalog"), SectionOf(src, "catalog"), Read)
  <2> DEFINE g == Gathered(c, "catalog")
             h == Gathered(src, "catalog")
  <2>1. SectionOf(c, "catalog") = Renamed(g) /\ SectionOf(src, "catalog") = Renamed(h)
    BY DEF SectionOf
  <2>2. Keys(g) = Keys(Renamed(h)) /\ \A k \in Keys(g) : g[k] = Renamed(h)[k]
    BY <1>5, <2>1 DEF Sections
  <2> HIDE DEF g, h
  <2>3. "schema" \notin Keys(Renamed(h)) => "db_schema" \notin Keys(Renamed(h))
    BY Renaming
  <2>4. Renamed(g) = g
    BY <2>2, <2>3 DEF Renamed
  <2> QED BY <2>1, <2>2, <2>4 DEF Agree
<1>8. Agree(c, src, {"payload_contract"})
  BY <1>1 DEF Agree, PassThrough
<1>9. Alike(c, src)
  BY <1>4, <1>6, <1>7, <1>8 DEF Alike
<1> QED BY <1>9 DEF c

(* Writing a source in the canonical layout keeps its load: where the parser *)
(* takes the source, it takes what canonicalize_sqldb_source_dict makes of it, *)
(* and a run loads the same from both. Both conditions are of the source that *)
(* the code itself reads in two ways: a kind of an older form whose own mode   *)
(* says otherwise, and a db_schema in the catalog section beside a schema at   *)
(* the top.                                                                    *)
THEOREM CanonicalLoads ==
  ASSUME NEW src, "kind" \in Keys(src), src["kind"] \in SqlKinds, SameMode(src), OneSchema(src), Contracted(src),
         ParserAccepts(Dumped(src, FALSE))
  PROVE  LET c == Canonical(src)
         IN  /\ Contracted(c) /\ ParserAccepts(Dumped(c, FALSE))
             /\ Section(c, "payload_contract") = Section(src, "payload_contract")
             /\ Loads(Normalize(Dumped(c, FALSE))) = Loads(Normalize(Dumped(src, FALSE)))
<1> DEFINE c == Canonical(src)
<1>1. Alike(Dumped(src, FALSE), src)
  BY DumpedAlike
<1>2. /\ Alike(src, Dumped(src, FALSE)) /\ ParserAccepts(src)
      /\ Loads(Normalize(src)) = Loads(Normalize(Dumped(src, FALSE)))
  <2>1. Alike(src, src)
    BY DEF Alike, Agree
  <2> QED BY <1>1, <2>1, AlikeLoads, Chained
<1>3. /\ Parsed(Normalize(src)) /\ Get(Normalize(src), "mode") \in {"catalog", "query"}
      /\ Normalize(src)["dialect"] \in {"generic", "oracle", "postgres", "mysql", "mssql"}
  <2>1. "dialect" \in Keys(Normalize(src))
    BY Normalized
  <2> QED BY <1>2, <2>1 DEF ParserAccepts, Parsed, Executable, InSchema
<1>4. "mode" \in Keys(Normalize(src)) /\ Normalize(src)["mode"] \in {"catalog", "query"}
  BY <1>3 DEF Get
<1>5. ShapeOf(src)["kind"] \in {"sqldb", "oracle"}
  <2>1. \A kind, dialect, mode : Shape(kind, dialect, mode)["kind"] = kind
    BY DEF Shape
  <2> QED BY <2>1 DEF ShapeOf, SqlKinds
<1>6. Shaped(src)
  BY <1>3, <1>4, <1>5, Normalized DEF Get, Shaped
<1>7. Alike(c, src)
  BY <1>4, <1>6, CanonicalAlike
<1>8. /\ "kind" \in Keys(c) /\ c["kind"] = "sqldb" /\ "mode" \in Keys(c) /\ c["mode"] = Normalize(src)["mode"]
      /\ TopFieldsOf \cap Keys(c) = {} /\ Agree(c, src, PassThrough)
  BY <1>4, <1>5, Canonicalized
<1> HIDE DEF c
<1>9. SameMode(c)
  BY <1>4, <1>8 DEF SameMode, Get
<1>10. OneSchema(c)
  BY <1>8 DEF OneSchema, TopFieldsOf, CatalogFields
<1>11. Contracted(c) /\ Section(c, "payload_contract") = Section(src, "payload_contract")
  BY <1>8 DEF Agree, PassThrough, Contracted, Section
<1>12. Alike(Dumped(c, FALSE), c)
  BY <1>8, <1>9, <1>10, DumpedAlike
<1>13. Alike(Dumped(c, FALSE), src)
  BY <1>7, <1>12, Chained
<1>a. Alike(src, Dumped(c, FALSE))
  BY <1>2, <1>13, Chained
<1>14. ParserAccepts(Dumped(c, FALSE)) /\ Loads(Normalize(Dumped(c, FALSE))) = Loads(Normalize(src))
  BY <1>2, <1>a, AlikeLoads
<1> QED BY <1>2, <1>11, <1>14 DEF c

(* A source with the canonical kind, dialect and mode put in.               *)
Fixed(src) ==
  Set(Set(Set(src, "kind", "sqldb"), "dialect", CanonicalForm[src["kind"]][1]), "mode", CanonicalForm[src["kind"]][2])

Plain(src) ==
  src["kind"] = "oracle" => Get(src, "mode") \in {"", "query"} /\ Get(src, "dialect") \in {"", "oracle"}

(* The doctor's three fixes of a source of an older kind (kind, dialect, mode) *)
(* keep its load (canonical_kind_fixes, apply_fixes), unless it is an oracle   *)
(* source that already names another dialect or mode.                          *)
THEOREM FixesLoad ==
  ASSUME NEW src, "kind" \in Keys(src), src["kind"] \in DOMAIN CanonicalForm, OneSchema(src), Contracted(src),
         Plain(src),
         ParserAccepts(Dumped(src, FALSE))
  PROVE  LET f == Fixed(src)
         IN  /\ Contracted(f) /\ ParserAccepts(Dumped(f, FALSE))
             /\ Section(f, "payload_contract") = Section(src, "payload_contract")
             /\ Loads(Normalize(Dumped(f, FALSE))) = Loads(Normalize(Dumped(src, FALSE)))
<1> DEFINE dialect == CanonicalForm[src["kind"]][1]
           mode == CanonicalForm[src["kind"]][2]
           f == Fixed(src)
           shape == {"kind", "dialect", "mode"}
<1>1. src["kind"] \in {"sql_database", "oracle_custom_sql", "oracle"} /\ src["kind"] # "sqldb"
  BY DEF CanonicalForm
<1>2. /\ dialect = IF src["kind"] = "sql_database" THEN "generic" ELSE "oracle"
      /\ mode = IF src["kind"] = "sql_database" THEN "catalog" ELSE "query"
  <2>1. /\ CanonicalForm["sql_database"] = <<"generic", "catalog">>
        /\ CanonicalForm["oracle_custom_sql"] = <<"oracle", "query">>
        /\ CanonicalForm["oracle"] = <<"oracle", "query">>
    BY DEF CanonicalForm
  <2> QED BY <1>1, <2>1
<1>3. /\ Keys(f) = Keys(src) \cup shape
      /\ f["kind"] = "sqldb" /\ f["dialect"] = dialect /\ f["mode"] = mode
      /\ \A k \in Keys(src) \ shape : f[k] = src[k]
  <2>1. /\ Keys(Set(src, "kind", "sqldb")) = Keys(src) \cup {"kind"}
        /\ Set(src, "kind", "sqldb")["kind"] = "sqldb"
        /\ \A k \in Keys(src) : k # "kind" => Set(src, "kind", "sqldb")[k] = src[k]
    BY Setting
  <2> DEFINE a == Set(src, "kind", "sqldb")
             b == Set(a, "dialect", dialect)
  <2>2. f = Set(b, "mode", mode)
    BY DEF Fixed
  <2> HIDE DEF a, dialect, mode, f
  <2>3. /\ Keys(b) = Keys(a) \cup {"dialect"} /\ b["dialect"] = dialect
        /\ \A k \in Keys(a) : k # "dialect" => b[k] = a[k]
    BY Setting
  <2> HIDE DEF b
  <2>4. /\ Keys(Set(b, "mode", mode)) = Keys(b) \cup {"mode"} /\ Set(b, "mode", mode)["mode"] = mode
        /\ \A k \in Keys(b) : k # "mode" => Set(b, "mode", mode)[k] = b[k]
    BY Setting
  <2> QED BY <2>1, <2>2, <2>3, <2>4 DEF a
<1> HIDE DEF f, dialect, mode
<1>4. mode # "" /\ dialect # ""
  BY <1>2
<1>5. Alike(f, src)
  <2>1. ShapeOf(f) = Shape("sqldb", dialect, mode)
    <3>1. Get(f, "dialect") = dialect /\ Get(f, "mode") = mode
      BY <1>3 DEF Get
    <3>2. OrElse(Get(f, "dialect"), "generic") = dialect /\ InferredMode(f) = mode
      BY <1>3, <1>4, <3>1 DEF OrElse, InferredMode
    <3> QED BY <1>3, <3>2 DEF ShapeOf
  <2>2. ShapeOf(src) \in {Shape("sqldb", dialect, mode), Shape("oracle", dialect, mode)}
    <3>1. CASE src["kind"] = "oracle"
      <4>1. OrElse(Get(src, "dialect"), "oracle") = "oracle" /\ OrElse(Get(src, "mode"), "query") = "query"
        BY <3>1 DEF OrElse, Plain
      <4> QED BY <1>2, <3>1, <4>1 DEF ShapeOf
    <3>2. CASE src["kind"] # "oracle"
      BY <1>1, <1>2, <3>2 DEF ShapeOf
    <3> QED BY <3>1, <3>2
  <2>3. \A kind : /\ Keys(Shape(kind, dialect, mode)) = shape
                  /\ Shape(kind, dialect, mode)["dialect"] = dialect
                  /\ Shape(kind, dialect, mode)["mode"] = mode
    BY <1>4 DEF Shape, Keys
  <2>4. ShapeOf(f)["dialect"] = ShapeOf(src)["dialect"] /\ Get(ShapeOf(f), "mode") = Get(ShapeOf(src), "mode")
    BY <2>1, <2>2, <2>3 DEF Get
  <2>5. ASSUME NEW s \in Sections PROVE SectionOf(f, s) = SectionOf(src, s)
    <3>1. s \notin shape /\ FieldsOf[s] \cap shape = {}
      <4>1. s \notin shape /\ TopFieldsOf \cap shape = {}
        BY DEF Sections, TopFieldsOf, CatalogFields, QueryFields, DialectFields
      <4> QED BY <4>1, FieldsTop
    <3>2. Section(f, s) = Section(src, s)
      <4>1. (s \in Keys(f) <=> s \in Keys(src)) /\ (s \in Keys(src) => f[s] = src[s])
        BY <1>3, <3>1
      <4> QED BY <4>1 DEF Section
    <3>3. Only(f, FieldsOf[s]) = Only(src, FieldsOf[s])
      <4>1. FieldsOf[s] \cap Keys(f) = FieldsOf[s] \cap Keys(src) /\ \A k \in FieldsOf[s] \cap Keys(f) : f[k] = src[k]
        BY <1>3, <3>1
      <4> QED BY <4>1, SameOnly
    <3> QED BY <3>2, <3>3 DEF SectionOf, Gathered
  <2>6. Agree(f, src, {"payload_contract"})
    BY <1>3 DEF Agree
  <2> QED BY <2>4, <2>5, <2>6 DEF Alike, Agree, Sections
<1>6. Alike(Dumped(src, FALSE), src)
  BY <1>1, DumpedAlike DEF SameMode
<1>7. SameMode(f)
  BY <1>3, <1>4 DEF SameMode, Get
<1>8. OneSchema(f)
  <2>1. /\ "schema" \in Keys(f) <=> "schema" \in Keys(src)
        /\ "catalog" \in Keys(f) <=> "catalog" \in Keys(src)
        /\ "catalog" \in Keys(src) => f["catalog"] = src["catalog"]
    BY <1>3
  <2>2. Section(f, "catalog") = Section(src, "catalog")
    BY <2>1 DEF Section
  <2> QED BY <2>1, <2>2 DEF OneSchema
<1>9. Alike(Dumped(f, FALSE), f)
  BY <1>3, <1>7, <1>8, DumpedAlike
<1>10. Alike(Dumped(f, FALSE), src)
  BY <1>5, <1>9, Chained
<1>11. Alike(Dumped(src, FALSE), Dumped(src, FALSE)) /\ Alike(src, Dumped(src, FALSE))
  BY <1>6, Chained DEF Alike, Agree
<1>12. Alike(Dumped(f, FALSE), Dumped(src, FALSE)) /\ Alike(Dumped(src, FALSE), Dumped(f, FALSE))
  <2>1. Alike(Dumped(f, FALSE), Dumped(src, FALSE))
    BY <1>10, <1>11, Chained
  <2> QED BY <2>1, <1>11, Chained
<1>13. ParserAccepts(Dumped(f, FALSE)) /\ Loads(Normalize(Dumped(f, FALSE))) = Loads(Normalize(Dumped(src, FALSE)))
  BY <1>12, AlikeLoads
<1>14. Contracted(f) /\ Section(f, "payload_contract") = Section(src, "payload_contract")
  BY <1>3 DEF Contracted, Section
<1> QED BY <1>13, <1>14 DEF f

(* What the parser takes, the workflow takes.                               *)
LEMMA ParsedRuns == ASSUME NEW src, ParserAccepts(src) PROVE WorkflowAccepts(src)
<1> DEFINE n == Normalize(src)
<1>1. /\ Parsed(n)
      /\ n["mode"] = "catalog" => CatalogGiven(n)
      /\ n["mode"] = "query" => QueriesGiven(n) /\ n["dialect"] = "oracle"
  BY DEF ParserAccepts
<1> HIDE DEF n
<1>2. CatalogGiven(n) => "catalog" \in Keys(n)
  BY EmptyKeys DEF CatalogGiven, Section
<1>3. DialectAccepts(n) /\ ModeAccepts(n) /\ QueryRuns(n)
  BY <1>1, <1>2 DEF DialectAccepts, ModeAccepts, QueryRuns
<1> QED BY <1>1, <1>3 DEF WorkflowAccepts, n

LEMMA LintedAny == LintedRuns
<1> SUFFICES ASSUME NEW strict \in BOOLEAN, Accepted(file, strict), SameMode(SourceOf(file))
             PROVE  LET src == Dumped(SourceOf(file), FALSE)
                        n == Normalize(src)
                        load == Loads(n)
                    IN  /\ WorkflowAccepts(src)
                        /\ Loads(Normalize(Execution(n))) = [load EXCEPT !.options = Without(@, {"thick_mode"})]
                        /\ ExpectedTables(Execution(n)) = LoadedTables(n)
  BY DEF LintedRuns
<1> DEFINE src == SourceOf(file)
           d == Dumped(src, FALSE)
           n == Normalize(d)
<1>1. "kind" \in Keys(src) /\ ParserAccepts(Dumped(src, strict))
  <2>1. Get(src, "kind") \in SqlKinds /\ ParserAccepts(Dumped(src, strict))
    BY DEF Accepted
  <2>2. "" \notin SqlKinds
    BY DEF SqlKinds
  <2> HIDE DEF src
  <2> QED BY <2>1, <2>2 DEF Get
<1> HIDE DEF src
<1>2. WorkflowAccepts(d)
  <2>1. CASE Dumped(src, strict) = d
    BY <1>1, <2>1, ParsedRuns
  <2>2. CASE Dumped(src, strict) # d
    <3>1. InForm(src) /\ Dumped(src, strict) = src
      BY <2>2 DEF Dumped, InForm
    <3> QED BY <1>1, <3>1, DumpedRuns DEF src
  <2> QED BY <2>1, <2>2
<1> HIDE DEF d
<1>3. Parsed(n)
  BY <1>2 DEF WorkflowAccepts
<1> HIDE DEF n
<1>4. n["mode"] \in {"catalog", "query"}
  BY <1>3 DEF Parsed, Executable, Get
<1>5. Loads(Normalize(Execution(n))) = [Loads(n) EXCEPT !.options = Without(@, {"thick_mode"})]
  BY <1>4, ExecutesSame
<1>6. ExpectedTables(Execution(n)) = LoadedTables(n)
  BY <1>4, ExpectsLoaded
<1> QED BY <1>2, <1>5, <1>6 DEF n, d, src

(* A manifest that the linter takes gets past the workflow's checks and is     *)
(* executed, protected and expected as the same load, for every file that the  *)
(* doctor may leave behind: it holds of every source.                          *)
THEOREM Linted == DoctorSpec => []LintedRuns
<1>1. LintedRuns
  BY LintedAny
<1> QED BY <1>1, PTL
================================================================================
