------------------------------- MODULE RunSetup -------------------------------
(***************************************************************************)
(* What comes before a pipeline runs, one program of the command line after  *)
(* the other in one process: "validate" goes through the validator; a run    *)
(* (ManifestExecutor.run_manifest) goes on to resolve the connections, to    *)
(* find the runner and to build the hooks, and then runs with the variables  *)
(* set; "infra run" checks a manifest as it is, and resolves nothing.        *)
(***************************************************************************)
EXTENDS Extensions, Connections

vars == <<extVars, connVars>>

Run == Validation \o <<Task("resolve", "connections"), Task("extra", "connections"),
                       Task("run", "runner"), Task("run", "hook"), Task("scope", "pipeline")>>
Programs == {Validation, Run, <<Task("run", "check")>>, <<Task("bare", "check")>>}

Init == ExtInit /\ ConnInit

(* Programs are run on one manifest; Vault comes and goes.                    *)
StartProgram ==
  /\ \E program \in Programs : Start(program)
  /\ \E turn \in BOOLEAN : vaultUp' = turn
  /\ StartResolving(manifest.connections)
Prepare == ExtNext /\ UNCHANGED connVars

(* The built-in checks read the variables that are there.                     *)
KafkaPrefix == IF "kafka" \in DOMAIN manifest.connections THEN manifest.connections.kafka.env_prefix ELSE "KAFKA"
Found ==
  [clickhouse |-> ClickHouseResults(<<"clickhouse", "host">> \in DOMAIN environ,
                                    <<"clickhouse", "http_port">> \in DOMAIN environ),
   kafka |-> KafkaResults(Servers(manifest.servers, <<KafkaPrefix, "bootstrap_servers">> \in DOMAIN environ))]
Check == RunCheck(Found) /\ UNCHANGED connVars

Resolving == Here("resolve", {"connections"})
(* A block may raise: the run ends there.                                     *)
Resolve ==
  /\ Resolving
  /\ \/ ResolveBlock(manifest.connections) /\ UNCHANGED extVars
     \/ ResolveRaises(manifest.connections) /\ Refuse
VaultChanges == Resolving /\ VaultTurns /\ UNCHANGED extVars
Resolved == Resolving /\ blocks = << >> /\ Done /\ UNCHANGED <<manifest, env, validated, taken, unrun, outcome, verdict, connVars>>
Extra ==
  /\ Here("extra", {"connections"}) /\ AddExtra
  /\ Done /\ UNCHANGED <<manifest, env, validated, taken, unrun, outcome, verdict>>

Enter == Here("scope", {"pipeline"}) /\ saved = Absent /\ EnterScope /\ UNCHANGED extVars
EnterRaises == Here("scope", {"pipeline"}) /\ saved = Absent /\ EnterCut /\ Refuse
(* The pipeline returns or raises.                                            *)
Leave ==
  /\ Here("scope", {"pipeline"}) /\ saved # Absent
  /\ LeaveScope \/ LeaveCut
  /\ todo' = << >> /\ verdict' \in {"ran", "raised"}
  /\ UNCHANGED <<manifest, env, buildVars, validated, taken, unrun, outcome>>

Next ==
  \/ StartProgram \/ Prepare \/ Check
  \/ Resolve \/ VaultChanges \/ Resolved \/ Extra
  \/ Enter \/ EnterRaises \/ Leave
Spec == Init /\ [][Next]_vars

-----------------------------------------------------------------------------
(* What a run takes comes from built-in items and plugins that loaded whole,  *)
(* and its runner is the one that validation found and asked; after           *)
(* validation, a run is refused for its runner or a hook only when the        *)
(* environment names plugins.                                                *)
RunAsValidated ==
  /\ Here("scope", {"pipeline"}) => validated \in taken
  /\ (Here("run", {"runner", "hook"}) /\ Built /\ env[Kind] = << >>) => failed = {}
  /\ (Here("run", {"runner"}) /\ Built /\ failed = {}) => (manifest.runner \in DOMAIN registry /\ registry[manifest.runner] = validated)
  /\ (Here("run", {"hook"}) /\ Built /\ failed = {}) => Named("hook") \subseteq DOMAIN registry

(* "infra run" says ok only if every plugin loaded whole, every check that was *)
(* selected exists and evaluated to no error. For a built-in check that means *)
(* that it reached a server, which answered if the client is installed, or    *)
(* that it raised before it tried one, which evaluate has no error for: of    *)
(* the built-in ones only ClickHouse's does, and only when its port is set    *)
(* (clickhouse_online_check, kafka_online_check, evaluate).                    *)
OkMeansChecked ==
  verdict = "ok" =>
    /\ failed = {} /\ unrun = {}
    /\ \A n \in DOMAIN outcome :
         /\ outcome[n].class \in {"clean", "warned", "raised"}
         /\ n \in Builtin["check"] \/ \E p \in loaded : n \in Range(Offers[p])
         /\ n \in Builtin["check"] =>
              IF outcome[n].class = "raised" THEN n = "clickhouse" /\ <<"clickhouse", "http_port">> \in DOMAIN environ
              ELSE outcome[n].reached # {} /\ outcome[n].client \in {"ok", "missing"}

(* Fields of the manifest that are mapped to an Airflow variable of their own *)
(* are labelled with the prefix of the others, which they are not from.       *)
OwnVariables == {<<"variable", f>> : f \in UNION {DOMAIN manifest.connections[b].mapped : b \in DOMAIN manifest.connections}}
(* A variable's label names the place that its value is from: but for          *)
(* defaults, for overrides when the label says that there are some, and for   *)
(* mapped fields under the label of a prefix, the whole value is from there   *)
(* (_provenance, try_get_airflow_fields_secret).                              *)
ProvenanceTrue ==
  \A v \in DOMAIN labels :
    resolved[v] \subseteq {labels[v].place, At("default")}
                           \cup (IF labels[v].plus THEN {At("override")} ELSE {})
                           \cup (IF labels[v].place[1] = "fields" THEN OwnVariables ELSE {})

(* The places that one secret of a connection has values from.                *)
PlacesOf(spec, place) ==
  {place} \cup (IF place[1] = "fields" THEN {<<"variable", f>> : f \in DOMAIN spec.mapped} ELSE {})
(* A pipeline logs in with what one secret says: every variable that is set    *)
(* for a connection, optional ones included, is from that secret but for      *)
(* overrides, defaults and what the caller adds; one that is not set, because *)
(* the secret has no such field, is none that the connection requires, and    *)
(* shows what the environment had before (build_*_env, temporary_environ).    *)
LoginTogether ==
  saved # Absent =>
    \A b \in DOMAIN secrets :
      LET spec == manifest.connections[b]
      IN  \A f \in DOMAIN Aliases[spec.kind] :
            LET v == Variable(spec, f)
                default == IF f \in Defaulted[spec.kind] THEN {At("default")} ELSE {}
            IN  IF v \in DOMAIN resolved
                THEN /\ v \in DOMAIN environ
                     /\ environ[v] \subseteq PlacesOf(spec, secrets[b]) \cup default \cup {At("override"), At("extra")}
                ELSE /\ f \notin Required[spec.kind]
                     /\ v \in DOMAIN environ <=> v \in DOMAIN saved
                     /\ v \in DOMAIN saved => environ[v] = saved[v]

(* The variables of f and g outside of apart are the same, with the same       *)
(* values.                                                                   *)
Alike(f, g, apart) ==
  \A v \in (DOMAIN f \cup DOMAIN g) \ apart : v \in DOMAIN f \cap DOMAIN g /\ f[v] = g[v]
(* A run leaves the environment as it found it, and outside of a run nothing   *)
(* sets a variable but the two names of Vault's address: only when a loop of  *)
(* temporary_environ is cut off in this run, what it went over stays set.     *)
EnvRestored ==
  [][IF saved # Absent /\ saved' = Absent THEN Alike(environ', saved, leaked')
     ELSE saved' = Absent => Alike(environ', environ, VaultNames \cup leaked')]_vars
===============================================================================
