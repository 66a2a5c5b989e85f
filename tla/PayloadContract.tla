---------------------------- MODULE PayloadContract ----------------------------
(***************************************************************************)
(* Payload contracts: how a manifest's source.payload_contract is compiled,  *)
(* what it does to a payload at run time and what it leaves behind            *)
(* (dlt_utils/contracts/payload_contract.py), and how `dltaf contracts test`  *)
(* checks the same contract on its samples (contract_testing.py,               *)
(* dltaf/services/contracts/testing.py).                                       *)
(*                                                                         *)
(* A payload or a JSON file is one of Shapes; a schema is the set of shapes it *)
(* accepts and of those on which its validator raises, which nobody finds out   *)
(* earlier. A file is [place, dir, name, shape]: place is the manifest's       *)
(* directory or the project root, dir the schema's directory ("contracts"),    *)
(* or "samples" or "captured" in it.                                            *)
(***************************************************************************)
EXTENDS Naturals, HttpPull

CONSTANTS
  Redacted    \* redact -> shape -> what a capture holds of it

None    == [none |-> TRUE]
Schema(accepts, raises) == [accepts |-> accepts, raises |-> raises]
Satisfies(schema, shape) == shape \in schema.accepts \ schema.raises
Broken  == [broken |-> TRUE]        \* a file that is not JSON
Missing == [missing |-> TRUE]       \* no file
Meta    == "meta"                   \* what a *.meta.json file holds

(* A configuration is None or [mode, inline, path, samples, capture]: inline a *)
(* Schema or None, path whether there is a schema_path, samples the names of    *)
(* the files it lists, capture None or [enabled, dir, template, redact]. The    *)
(* mode "false" is what YAML makes of an unquoted off.                           *)
Modes == {"off", "warn", "deny"}
ValidConfig(c) == c.mode \in Modes /\ (c.mode # "off" => c.path \/ c.inline # None)

-------------------------------------------------------------------------------
(* resolve_contract_path for a file that must exist: the manifest's directory  *)
(* before the project's root; what need not exist stays with the manifest.     *)
Resolve(places) ==
  IF "manifest" \in places THEN "manifest" ELSE IF "root" \in places THEN "root" ELSE "nowhere"
ResolveNew == "manifest"

(* build_payload_contract: None, a compiled contract, or an exception. The file *)
(* at schema_path is, for either place, a Schema, Broken or Missing.             *)
SchemaPlace(schemas) == Resolve({p \in DOMAIN schemas : schemas[p] # Missing})

CaptureDir(c, schemas) ==
  IF c.capture.dir # "" THEN [place |-> ResolveNew, dir |-> c.capture.dir]
  ELSE IF c.inline = None THEN [place |-> SchemaPlace(schemas), dir |-> "captured"]
  ELSE [place |-> "manifest", dir |-> "captured"]

Raised(class, words) == [raise |-> Error(class, Lost, words)]

Compiled(c, schema, schemas) ==
  [mode |-> c.mode, schema |-> schema,
   capture |-> IF c.capture = None \/ ~c.capture.enabled THEN None
               ELSE [at |-> CaptureDir(c, schemas), template |-> c.capture.template,
                     redact |-> c.capture.redact]]

Build(c, schemas) ==
  IF c = None \/ c.mode = "off" THEN None
  ELSE IF c.inline # None THEN Compiled(c, c.inline, schemas)
  ELSE LET place == SchemaPlace(schemas)
       IN IF place = "nowhere" THEN Raised("FileNotFoundError", {})
          ELSE IF schemas[place] = Broken THEN Raised("ValueError", {"schema"})
          ELSE Compiled(c, schemas[place], schemas)

-------------------------------------------------------------------------------
(* _try_capture_payload: faults are the file operations that fail. The file    *)
(* number n is new unless the template names no {rand}; a placeholder that      *)
(* nobody knows raises.                                                          *)
Kept(files, new) == {f \in files : \A g \in new : [f EXCEPT !.shape = g.shape] # g} \cup new

(* What a capture holds: the payload redacted, if asked for, and truncated in   *)
(* any case, or a note where it is still too large.                              *)
Prepared(contract, payload) == Redacted[contract.capture.redact][payload]

CaptureFiles(contract, payload, faults, n) ==
  LET at == contract.capture.at
      id == IF contract.capture.template = "fixed" THEN 0 ELSE n
      File(name, s) == [place |-> at.place, dir |-> at.dir, name |-> <<name, id>>, shape |-> s]
  IN {f \in {File("capture", Prepared(contract, payload)), File("meta", Meta)} : f.name[1] \notin faults}

(* validate: a validator that raises ends it in any mode, for the errors are   *)
(* listed outside of the try; otherwise the payload is captured before the mode  *)
(* decides.                                                                      *)
Captures(contract, payload) ==
  payload \notin contract.schema.accepts \cup contract.schema.raises /\ contract.capture # None
(* Fault: a file that cannot be written ends the run. *)
ValidateDiskError(contract, payload, faults) ==
  IF payload \in contract.schema.raises THEN Raised("UnknownType", {"schema"})
  ELSE IF payload \in contract.schema.accepts THEN [return |-> TRUE]
  ELSE IF contract.capture # None /\ faults # {} THEN Raised("OSError", {})
  ELSE IF contract.mode = "warn" THEN [return |-> FALSE]
  ELSE Raised("PayloadContractViolation", {"schema"})
Validate(contract, payload, faults) ==
  IF payload \in contract.schema.raises THEN Raised("UnknownType", {"schema"})
  ELSE IF payload \in contract.schema.accepts THEN [return |-> TRUE]
  ELSE IF contract.capture # None /\ "mkdir" \notin faults /\ contract.capture.template = "unknown"
       THEN Raised("KeyError", {})
  ELSE IF contract.mode = "warn" THEN [return |-> FALSE]
  ELSE Raised("PayloadContractViolation", {"schema"})

Captured(contract, payload, faults, n, files) ==
  IF Captures(contract, payload) /\ contract.capture.template # "unknown" /\ "mkdir" \notin faults
  THEN Kept(files, CaptureFiles(contract, payload, faults, n))
  ELSE files

-------------------------------------------------------------------------------
(* The sample files: those the manifest lists, all of which must be there, or   *)
(* those next to the schema (payload.sample.json, payload.sample.*.json) and    *)
(* in samples/ next to it.                                                       *)
Listed(c, files) ==
  LET Places(name) == {f.place : f \in {g \in files : g.name = name}}
  IN {f \in files : f.name \in c.samples /\ f.place = Resolve(Places(f.name))}
(* Fault: every directory next to the schema is looked into. *)
DiscoveredEverywhere(files, place) == {f \in files : f.place = place}
Discovered(files, place) ==
  {f \in files : f.place = place /\ (f.dir = "samples" \/ (f.dir = "contracts" /\ f.name[1] = "sample"))}

(* One manifest of run_contract_tests: passed, failed or skipped; a listed      *)
(* sample or a schema that is missing, and a validator that raises, end the      *)
(* whole report.                                                                 *)
Report(status, schema, shapes) == [status |-> status, schema |-> schema, shapes |-> shapes]

(* Fault: one sample that satisfies the schema is enough. *)
CheckSamplesAny(contract, samples, allowNone) ==
  IF samples = {} THEN allowNone ELSE \E f \in samples : Satisfies(contract.schema, f.shape)
CheckSamples(contract, samples, allowNone) ==
  IF samples = {} THEN allowNone ELSE \A f \in samples : Satisfies(contract.schema, f.shape)

ContractTest(c, schemas, files, allowNone) ==
  IF c = None THEN Report("skipped", {}, {})
  ELSE IF ~ValidConfig(c) THEN Report("failed", {}, {})
  ELSE LET contract == Build(c, schemas)
       IN IF contract = None THEN Report("skipped", {}, {})
          ELSE IF "raise" \in DOMAIN contract THEN Report("failed", {}, {})
          ELSE IF (c.path /\ SchemaPlace(schemas) = "nowhere")
                  \/ ~(c.samples \subseteq {f.name : f \in files})
               THEN Report("aborted", {}, {})
          ELSE LET samples == IF c.samples # {} THEN Listed(c, files)
                              ELSE IF ~c.path THEN {}
                              ELSE Discovered(files, SchemaPlace(schemas))
                   shapes == {f.shape : f \in samples}
               IN IF shapes \cap contract.schema.raises # {} THEN Report("aborted", {}, {})
                  ELSE Report(IF CheckSamples(contract, samples, allowNone) THEN "passed" ELSE "failed",
                              contract.schema, shapes)
===============================================================================
