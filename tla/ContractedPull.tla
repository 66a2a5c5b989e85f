---------------------------- MODULE ContractedPull ----------------------------
(***************************************************************************)
(* Manifest runs that pull a report over HTTP and check it against the        *)
(* payload contract, one after the other, while the contract's owner edits    *)
(* the schema and CI tests the contract. The runner is external, a plugin that  *)
(* compiles its contract, posts a job, polls for the report, validates it and   *)
(* loads it (the one dltaf/services/scaffold renders asks once and checks       *)
(* nothing); what it calls is the repository's.                                 *)
(***************************************************************************)
EXTENDS PayloadContract, Overrides

CONSTANTS
  Configs,        \* what source.payload_contract of the manifest may be
  Arguments,      \* command lines: set, from, to
  Schemas,        \* the versions of the schema
  Payloads,       \* the reports the server may give
  Samples,        \* the sample files kept with the contract
  Retries, PollAttempts, MaxRuns, MaxEdits

ASSUME BoundsAssumption ==
  {Retries, PollAttempts, MaxRuns, MaxEdits} \subseteq Nat
ASSUME ConfigsAssumption ==
  Configs \subseteq {None} \cup
    [mode : STRING, inline : Schemas \cup {None}, path : BOOLEAN, samples : SUBSET (STRING \X Nat),
     capture : {None} \cup [enabled : BOOLEAN, dir : STRING, template : STRING, redact : BOOLEAN]]
ASSUME SamplesAssumption ==
  Samples \subseteq [place : {"manifest"}, dir : {"contracts", "samples"}, name : {"sample"} \X Nat,
                     shape : Payloads]

ASSUME ArgumentsAssumption ==
  \A a \in Arguments :
    /\ a.set \in Seq(Range(a.set)) /\ a.from \in Seq(Range(a.from)) /\ a.to \in Seq(Range(a.to))
    /\ Len(a.from) <= 1 /\ Len(a.to) <= 1

VARIABLES
  config,     \* of the manifest's file, as a record
  schemas,    \* place -> the schema file there
  files,      \* samples and captured files
  edits, runs,
  stage,      \* idle, accepted, trigger, poll, check
  manifest,   \* the tree this run works with
  args,       \* of this run
  contract,   \* compiled by this run's runner
  attempt,    \* of the request under way
  poll,       \* of the poll under way
  jobs,       \* jobs the server started for this run
  unheard,    \* of them, those it started while the client did not learn it
  ready,      \* the report, once the job is done
  seen,       \* what the last poll was answered: none, failed, pending, report
  payload,    \* what this run checks
  ended,      \* how the last run ended
  report      \* of the last contract test

vars == <<config, schemas, files, edits, runs, stage, manifest, args, contract, attempt,
          poll, jobs, unheard, ready, seen, payload, ended, report>>
job  == <<attempt, poll, jobs, unheard, ready, seen, payload>>
disk == <<config, schemas, files, edits>>

NoArgs == [set |-> << >>, from |-> << >>, to |-> << >>]
NoEnd  == [how |-> "none", error |-> Error("none", Lost, {}), contract |-> None,
           payload |-> Nothing, attempt |-> 0, seen |-> "none"]

(* The manifest's file as a tree; only the contract's mode and the window matter. *)
Tree ==
  LET source == IF config = None THEN << >>
                ELSE "payload_contract" :> Map("mode" :> Leaf(config.mode))
  IN Map("source" :> Map(source))

(* The configuration the overridden manifest has. *)
Effective(m) ==
  IF config = None THEN None
  ELSE LET mode == At(m, <<"source", "payload_contract", "mode">>)
       IN [config EXCEPT !.mode = IF "leaf" \in DOMAIN mode THEN mode.leaf ELSE "false"]

Init ==
  /\ config \in Configs
  /\ schemas \in {[p \in {"manifest", "root"} |-> IF p \in ps THEN s ELSE Missing] :
                    ps \in SUBSET {"manifest", "root"}, s \in Schemas}
  /\ files \in {{[f EXCEPT !.place = SchemaPlace(schemas)] : f \in s} : s \in SUBSET Samples}
  /\ edits = 0 /\ runs = 0
  /\ stage = "idle" /\ manifest = Null /\ args = NoArgs /\ contract = None
  /\ attempt = 0 /\ poll = 0 /\ jobs = 0 /\ unheard = 0 /\ ready = Nothing
  /\ seen = "none" /\ payload = Nothing
  /\ ended = NoEnd /\ report = Report("none", {}, {})

(* The state of a run that is over says only how it ended. *)
End(how, error) ==
  /\ ended' = [how |-> how, error |-> error, contract |-> contract, payload |-> payload,
               attempt |-> attempt, seen |-> seen]
  /\ stage' = "idle" /\ manifest' = Null /\ args' = NoArgs /\ contract' = None
  /\ attempt' = 0 /\ poll' = 0 /\ jobs' = 0 /\ unheard' = 0 /\ ready' = Nothing
  /\ seen' = "none" /\ payload' = Nothing

-------------------------------------------------------------------------------
(* The executor: overrides, then validation, which builds the contract too; *)
(* what fails here fails before the hooks.                                   *)
Start(a) ==
  /\ stage = "idle" /\ runs < MaxRuns
  /\ runs' = runs + 1
  /\ LET m == Overridden(Tree, a)
         c == IF m = Refused THEN None ELSE Effective(m)
     IN IF m # Refused /\ (c = None \/ (ValidConfig(c) /\ "raise" \notin DOMAIN Build(c, schemas)))
        THEN /\ stage' = "accepted" /\ manifest' = m /\ args' = a
             /\ UNCHANGED <<contract, job, ended>>
        ELSE End("refused", Error("ValueError", Lost, {"schema"}))
  /\ UNCHANGED <<disk, report>>

(* The runner builds the contract again before it starts. *)
Begin ==
  /\ stage = "accepted"
  /\ LET built == Build(Effective(manifest), schemas)
     IN IF "raise" \in DOMAIN built THEN End("failed", built.raise)
        ELSE /\ stage' = "trigger" /\ contract' = built /\ attempt' = 1
             /\ manifest' = Null /\ args' = NoArgs
             /\ UNCHANGED <<poll, jobs, unheard, ready, seen, payload, ended>>
  /\ UNCHANGED <<disk, runs, report>>

(* A POST: the server may start a job whatever becomes of its answer. *)
Answer(status, body, words) == [status |-> status, body |-> body, words |-> words]
TriggerAnswers(started) ==
  {Answer(Lost, Nothing, {}), Answer(503, Nothing, {})}
    \cup (IF started THEN {Answer(202, "accepted", {}), Answer(200, NotJson, {})}
          ELSE {Answer(400, NotJson, {"timeout"}), Answer(401, Nothing, {}), Answer(429, Nothing, {})})

Trigger(started, ans) ==
  /\ stage = "trigger" /\ ans \in TriggerAnswers(started)
  /\ LET next == Answered(ans, attempt, Retries, {})
         more == IF started THEN 1 ELSE 0
         lost == IF started /\ ~Ok({}, ans.status) THEN 1 ELSE 0
     IN \/ /\ "again" \in DOMAIN next
           /\ attempt' = attempt + 1 /\ jobs' = jobs + more /\ unheard' = unheard + lost
           /\ UNCHANGED <<stage, manifest, args, contract, poll, ready, seen, payload, ended>>
        \/ /\ "return" \in DOMAIN next
           /\ stage' = IF "again" \in DOMAIN PollStart(PollAttempts) THEN "poll" ELSE "check"
           /\ poll' = 1 /\ attempt' = 1
           /\ jobs' = jobs + more /\ unheard' = unheard + lost
           /\ UNCHANGED <<manifest, args, contract, ready, seen, payload, ended>>
        \/ "raise" \in DOMAIN next /\ End("failed", next.raise)
  /\ UNCHANGED <<disk, runs, report>>

(* The server finishes the job. *)
JobDone(p) ==
  /\ jobs > 0 /\ ready = Nothing
  /\ ready' = p
  /\ UNCHANGED <<disk, runs, stage, manifest, args, contract, attempt, poll, jobs, unheard,
                 seen, payload, ended, report>>

(* poll_until: each call is a request_json of its own, whose exception counts *)
(* as no value.                                                                *)
PollAnswers ==
  {Answer(Lost, Nothing, {}), Answer(503, Nothing, {})}
    \cup (IF ready = Nothing THEN {Answer(200, Nothing, {}), Answer(404, Nothing, {})}
          ELSE {Answer(200, ready, {}), Answer(200, NotJson, {})})

Poll(ans) ==
  /\ stage = "poll" /\ ans \in PollAnswers
  /\ LET next == Answered(ans, attempt, Retries, {200})
         value == IF "return" \in DOMAIN next THEN next.return ELSE Nothing
         polled == Polled(value, poll, PollAttempts)
         saw == IF "raise" \in DOMAIN next THEN "failed"
                ELSE IF IsDone(value) THEN "report" ELSE "pending"
     IN \/ /\ "again" \in DOMAIN next
           /\ attempt' = attempt + 1
           /\ UNCHANGED <<stage, manifest, args, contract, poll, jobs, unheard, ready, seen, payload, ended>>
        \/ /\ "again" \notin DOMAIN next /\ "again" \in DOMAIN polled
           /\ poll' = poll + 1 /\ attempt' = 1 /\ seen' = saw
           /\ UNCHANGED <<stage, manifest, args, contract, jobs, unheard, ready, payload, ended>>
        \/ /\ "again" \notin DOMAIN next /\ "success" \in DOMAIN polled
           /\ stage' = "check" /\ seen' = saw
           /\ payload' = IF polled.success THEN polled.value ELSE Nothing
           /\ UNCHANGED <<manifest, args, contract, poll, attempt, jobs, unheard, ready, ended>>
  /\ UNCHANGED <<disk, runs, report>>

(* A poll without success leaves nothing to load; otherwise the payload is *)
(* validated and, unless that raises, loaded.                                *)
Faults == {{}, {"mkdir"}, {"capture"}, {"meta"}}
Check(faults) ==
  /\ stage = "check"
  /\ IF ~IsDone(payload) THEN End("empty", Error("none", Lost, {})) /\ UNCHANGED files
     ELSE IF contract = None THEN End("loaded", Error("none", Lost, {})) /\ UNCHANGED files
     ELSE /\ LET v == Validate(contract, payload, faults)
             IN IF "raise" \in DOMAIN v THEN End("failed", v.raise)
                ELSE End("loaded", Error("none", Lost, {}))
          /\ files' = Captured(contract, payload, faults, runs, files)
  /\ UNCHANGED <<config, schemas, edits, runs, report>>

(* Others: the schema is edited in place, CI tests the contract. *)
EditSchema(s) ==
  /\ edits < MaxEdits /\ edits' = edits + 1
  /\ SchemaPlace(schemas) # "nowhere"
  /\ schemas' = [schemas EXCEPT ![SchemaPlace(schemas)] = s]
  /\ UNCHANGED <<config, files, runs, stage, manifest, args, contract, job, ended, report>>

TestContract ==
  /\ report' = ContractTest(config, schemas, files, FALSE)
  /\ UNCHANGED <<disk, runs, stage, manifest, args, contract, job, ended>>

Next ==
  \/ \E a \in Arguments : Start(a)
  \/ Begin
  \/ \E started \in BOOLEAN, ans \in TriggerAnswers(TRUE) \cup TriggerAnswers(FALSE) : Trigger(started, ans)
  \/ \E p \in Payloads : JobDone(p)
  \/ \E ans \in PollAnswers : Poll(ans)
  \/ \E faults \in Faults : Check(faults)
  \/ \E s \in Schemas \cup {Broken} : EditSchema(s)
  \/ TestContract

Spec == Init /\ [][Next]_vars
-------------------------------------------------------------------------------
(* The flags of the time window win over --set: a run works with the window    *)
(* they give, whatever --set says of the same keys or of the maps around them,  *)
(* unless --set spells a flag's own key, which then keeps its earlier place      *)
(* (specs_to_mapping, manifest_runner.py:188).                                  *)
FlagsWin ==
  stage = "accepted" =>
    /\ (args.from # << >> /\ \A i \in DOMAIN args.set : args.set[i].key # WindowStart)
         => At(manifest, <<"source", "time_window", "start">>) = ParseValue(args.from[1])
    /\ (args.to # << >> /\ \A i \in DOMAIN args.set : args.set[i].key # WindowEnd)
         => At(manifest, <<"source", "time_window", "end">>) = ParseValue(args.to[1])

(* The server does a job more than once for a run only where it did one without *)
(* the client learning of it: an accepted request is never sent again            *)
(* (requests_client.py:186, POST included).                                      *)
JobsExplained ==
  /\ jobs <= unheard + 1
  /\ stage \in {"poll", "check"} => jobs = unheard + 1

(* A run ends without data only where the report was not there, or the call      *)
(* failed, the last time it was asked for (poll_until).                          *)
ReportSeen == ended.how = "empty" => ended.seen # "report"

(* Once a payload is there its contract's mode alone decides: warn never keeps it *)
(* from being loaded, deny does so exactly for a payload that breaks the schema,   *)
(* even when it cannot be captured (PayloadContract.validate). Two things end the  *)
(* run in any mode: a schema on which the validator raises (payload_contract.py:   *)
(* 222), and a capture template with an unknown placeholder, for a payload that    *)
(* breaks the schema (:612).                                                       *)
Unknown(c) == c.capture # None /\ c.capture.template = "unknown"
ModeDecides ==
  (ended.payload # Nothing /\ ended.contract # None) =>
    LET c == ended.contract
        breaks == ended.payload \notin c.schema.accepts
        raises == ended.payload \in c.schema.raises
    IN /\ raises => ended.how = "failed"
       /\ (~raises /\ ~(breaks /\ Unknown(c))) =>
            IF c.mode = "warn" \/ ~breaks
            THEN ended.how = "loaded"
            ELSE ended.how = "failed" /\ Classify(ended.error).code = "payload_contract_violation"

(* What CI has tested holds at run time: a run does not refuse a payload that is  *)
(* a sample of a passed contract test of the schema it runs with                  *)
(* (check_contract_samples against PayloadContract.validate).                      *)
TestedHolds ==
  (ended.how = "failed" /\ ended.payload # Nothing /\ report.status = "passed"
     /\ ended.contract.schema = report.schema)
  => ended.payload \notin report.shapes

(* A run does not change what CI finds: capturing leaves the verdict of the        *)
(* contract's test alone, unless the manifest puts captures where samples are       *)
(* discovered, or lists one (discover_samples_for_schema, _build_capture_settings).  *)
TestsStable ==
  \/ config # None /\ config.capture # None /\ config.capture.dir = "samples"
  \/ config # None /\ \E name \in config.samples : name[1] # "sample"
  \/ ContractTest(config, schemas, files, FALSE)
       = ContractTest(config, schemas, {f \in files : f.name[1] = "sample"}, FALSE)
===============================================================================
