----------------------------- MODULE Connections ------------------------------
(***************************************************************************)
(* The environment of a run from the connections of its manifest             *)
(* (dlt_utils/adapters/secrets, vault_env.py): each block is resolved from   *)
(* Vault or, when that fails, from an Airflow variable with an object, or    *)
(* from one variable per field; the secret, with the overrides applied, is   *)
(* turned into environment variables, which are set while the run lasts.     *)
(*                                                                         *)
(* A value is known by where it is from: a value of the environment is the   *)
(* set of the places its parts are from. A prefix is what is left of it      *)
(* before the two underscores; that ports are numbers is left out.           *)
(***************************************************************************)
EXTENDS Naturals, Sequences, SequencesExt

CONSTANTS
  Vault,        \* ref -> secret: key -> "value" or Blank
  AirflowJson,  \* variable -> secret, or NotJson
  AirflowVars,  \* prefix -> the fields for which there is a variable
  NotJson, Blank, Absent,
  Ambient,      \* environments of the process to start from
  ExtraEnvs,    \* sets of variables that the caller of a run adds
  Begun,        \* what the loop that sets a run's variables may have set when it is cut off
  Rest          \* what the loop that gives them back may not have come to

VARIABLES
  environ,      \* os.environ: variable -> places
  blocks,       \* blocks of the connections not resolved yet
  resolved,     \* variable -> places
  labels,       \* variable -> the place it is reported to be from
  secrets,      \* block -> the place its secret is from
  saved,        \* what temporary_environ restores; Absent outside of a run
  leaked,       \* variables that a loop of temporary_environ was cut off over
  vaultUp       \* Vault answers

connVars == <<environ, blocks, resolved, labels, secrets, saved, leaked, vaultUp>>

-----------------------------------------------------------------------------
(* The keys of a secret that each variable is taken from, the first with a   *)
(* value first.                                                              *)
SqlAliases ==
  [drivername |-> <<"drivername", "driver">>, host |-> <<"host", "hostname">>, port |-> <<"port">>,
   username |-> <<"username", "user", "login">>, password |-> <<"password", "pass">>,
   database |-> <<"database", "schema">>, dsn |-> <<"dsn">>]
ClickHouseAliases ==
  [host |-> <<"host", "hostname">>, port |-> <<"port">>, http_port |-> <<"http_port", "httpPort">>,
   secure |-> <<"secure", "tls">>, database |-> <<"database">>,
   username |-> <<"username", "user", "login">>, password |-> <<"password", "pass">>,
   dataset_table_separator |-> <<"dataset_table_separator">>]
MongoAliases == [connection_url |-> <<"connection_url", "connectionUrl", "uri", "url">>]
KeycloakAliases ==
  [token_url |-> <<"token_url", "tokenUrl", "url">>, client_id |-> <<"client_id", "clientId">>,
   client_secret |-> <<"client_secret", "clientSecret">>, username |-> <<"username", "user">>,
   password |-> <<"password", "pass">>, grant_type |-> <<"grant_type", "grantType">>,
   scope |-> <<"scope">>, verify_ssl |-> <<"verify_ssl", "verifySsl", "verify">>,
   timeout_seconds |-> <<"timeout_seconds", "timeoutSeconds">>]
KafkaAliases ==
  [bootstrap_servers |-> <<"bootstrap_servers", "bootstrapServers", "brokers", "servers", "bootstrap">>,
   security_protocol |-> <<"security_protocol", "securityProtocol", "protocol">>,
   sasl_mechanism |-> <<"sasl_mechanism", "saslMechanism", "mechanism">>,
   sasl_username |-> <<"sasl_username", "saslUser", "username", "user">>,
   sasl_password |-> <<"sasl_password", "password", "pass">>,
   ssl_cafile |-> <<"ssl_cafile", "cafile", "sslCaFile">>,
   ssl_certfile |-> <<"ssl_certfile", "certfile", "sslCertFile">>,
   ssl_keyfile |-> <<"ssl_keyfile", "keyfile", "sslKeyFile">>,
   ssl_check_hostname |-> <<"ssl_check_hostname">>]

Aliases == [sql |-> SqlAliases, clickhouse |-> ClickHouseAliases, mongodb |-> MongoAliases,
            keycloak |-> KeycloakAliases, kafka |-> KafkaAliases]
Required == [sql        |-> {"drivername", "host", "username", "password"},
             clickhouse |-> {"host", "database"}, mongodb |-> {"connection_url"},
             keycloak   |-> {"token_url", "client_id"}, kafka |-> {}]
Defaulted == [sql        |-> {}, mongodb |-> {}, kafka |-> {},
              clickhouse |-> DOMAIN ClickHouseAliases \ {"host", "database"},
              keycloak   |-> {"grant_type", "scope", "verify_ssl", "timeout_seconds"}]
AirflowFields(kind) ==
  IF kind = "mongodb" THEN {"connection_url", "host", "port", "user", "password", "database"}
  ELSE DOMAIN Aliases[kind]
KindsOf(block) ==
  CASE block = "source" -> {"sql", "mongodb", "keycloak"}
    [] block = "destination" -> {"clickhouse"} [] block = "kafka" -> {"kafka"}
DefaultPrefix(spec) == IF spec.kind = "kafka" THEN spec.env_prefix ELSE spec.kind

-----------------------------------------------------------------------------
(* The entries of f over those of g.                                         *)
Overlay(f, g) == [v \in DOMAIN f \cup DOMAIN g |-> IF v \in DOMAIN f THEN f[v] ELSE g[v]]

(* A secret: key -> place, or Blank.                                         *)
At(what) == <<what, "">>
From(place, secret) == [k \in DOMAIN secret |-> IF secret[k] = Blank THEN Blank ELSE place]
Overridden(secret, overrides) == Overlay(From(At("override"), overrides), secret)
Given(secret, key) == key \in DOMAIN secret /\ secret[key] # Blank

(* A reference in the form of a mapping is made a string before it is parsed, *)
(* and names nothing that Vault has.                                          *)
VaultSecret(spec) ==
  IF spec.vault # Absent /\ vaultUp /\ spec.vault.form = "string" /\ spec.vault.ref \in DOMAIN Vault
  THEN <<From(<<"vault", spec.vault.ref>>, Vault[spec.vault.ref])>> ELSE << >>
JsonSecret(spec) ==
  IF spec.json \in DOMAIN AirflowJson /\ AirflowJson[spec.json] # NotJson
  THEN <<From(<<"json", spec.json>>, AirflowJson[spec.json])>> ELSE << >>
(* A field that is mapped to a variable of its own is taken from there.       *)
FieldsSecret(spec) ==
  LET prefix == IF spec.prefix = Absent THEN DefaultPrefix(spec) ELSE spec.prefix
      there == {f \in AirflowFields(spec.kind) :
                  IF f \in DOMAIN spec.mapped THEN spec.mapped[f]
                  ELSE prefix \in DOMAIN AirflowVars /\ f \in AirflowVars[prefix]}
  IN  IF there = {} THEN << >>
      ELSE <<[f \in there |-> IF f \in DOMAIN spec.mapped THEN <<"variable", f>> ELSE <<"fields", prefix>>]>>

(* Fault: the Airflow fields fill the gaps of what was found before.         *)
SecretFilled(spec) ==
  LET found == VaultSecret(spec) \o JsonSecret(spec) \o FieldsSecret(spec)
      merged == FoldLeft(LAMBDA all, s : all @@ s, << >>, found)
  IN  IF found = << >> THEN << >> ELSE <<Overridden(merged, spec.overrides)>>

(* The secret of the first place that has one, with the overrides; << >> if   *)
(* there is none.                                                            *)
Secret(spec) ==
  LET found == VaultSecret(spec) \o JsonSecret(spec) \o FieldsSecret(spec)
  IN  IF found = << >> THEN << >> ELSE <<Overridden(Head(found), spec.overrides)>>
Place(spec) ==
  CASE VaultSecret(spec) # << >> -> <<"vault", spec.vault.ref>>
    [] VaultSecret(spec) = << >> /\ JsonSecret(spec) # << >> -> <<"json", spec.json>>
    [] OTHER -> <<"fields", IF spec.prefix = Absent THEN DefaultPrefix(spec) ELSE spec.prefix>>
(* An Airflow variable that is no object raises, unless Vault answered.       *)
Unparsable(spec) == VaultSecret(spec) = << >> /\ spec.json \in DOMAIN AirflowJson /\ AirflowJson[spec.json] = NotJson

-----------------------------------------------------------------------------
(* What each field of a connection is made of.                               *)
Taken(secret, keys) ==
  {secret[keys[i]] : i \in {n \in DOMAIN keys : /\ Given(secret, keys[n])
                                               /\ \A j \in 1..(n - 1) : ~Given(secret, keys[j])}}
MongoUrl(secret) ==
  LET url == Taken(secret, MongoAliases.connection_url)
      login == IF Given(secret, "user") /\ Given(secret, "password") THEN {"user", "password"} ELSE {}
      parts == {"host"} \cup login \cup ({"port", "database"} \cap {k \in DOMAIN secret : Given(secret, k)})
  IN  IF url # {} \/ ~Given(secret, "host") THEN url ELSE {secret[k] : k \in parts}
Made(kind, secret) ==
  [f \in DOMAIN Aliases[kind] |-> IF kind = "mongodb" THEN MongoUrl(secret) ELSE Taken(secret, Aliases[kind][f])]
Buildable(kind, secret) == \A f \in Required[kind] : Made(kind, secret)[f] # {}

Group(spec) == IF spec.kind = "kafka" THEN spec.env_prefix ELSE spec.kind
Variable(spec, field) == <<Group(spec), field>>
EnvOf(spec, secret) ==
  LET made == Made(spec.kind, secret)
      set == {f \in DOMAIN made : made[f] # {} \/ f \in Defaulted[spec.kind]}
  IN  [v \in {Variable(spec, f) : f \in set} |-> IF made[v[2]] = {} THEN {At("default")} ELSE made[v[2]]]

(* The label of a variable: a place, with or without overrides; two of them   *)
(* have a label of their own.                                                *)
Label(place, plus) == [place |-> place, plus |-> plus]
LabelOf(spec, secret, field) ==
  CASE spec.kind = "clickhouse" /\ field \in {"database", "dataset_table_separator"} /\ Given(spec.overrides, field)
         -> Label(At("override"), FALSE)
    [] field = "dataset_table_separator" /\ ~Given(spec.overrides, field)
         -> Label(IF Given(secret, field) THEN Place(spec) ELSE At("default"), FALSE)
    [] OTHER -> Label(Place(spec), DOMAIN spec.overrides # {})
LabelsOf(spec, secret) == [v \in DOMAIN EnvOf(spec, secret) |-> LabelOf(spec, secret, v[2])]

-----------------------------------------------------------------------------
(* Reading Vault sets the one of its two address variables that is missing.   *)
VaultNames == {<<"VAULT", "ADDR">>, <<"VAULT", "ADDRESS">>}
Aligned(vars) ==
  IF VaultNames \cap DOMAIN vars = {} THEN vars
  ELSE Overlay(vars, [n \in VaultNames |-> vars[CHOOSE m \in VaultNames : m \in DOMAIN vars]])
AfterRead(spec) == IF spec.vault # Absent /\ spec.vault.form # "malformed" THEN Aligned(environ) ELSE environ

ConnInit ==
  /\ environ \in Ambient /\ vaultUp \in BOOLEAN
  /\ blocks = << >> /\ resolved = << >> /\ labels = << >> /\ secrets = << >>
  /\ saved = Absent /\ leaked = {}

VaultTurns ==
  /\ vaultUp' = ~vaultUp
  /\ UNCHANGED <<environ, blocks, resolved, labels, secrets, saved, leaked>>

StartResolving(connections) ==
  /\ LET present(b) == IF b \in DOMAIN connections THEN <<b>> ELSE << >>
     IN  blocks' = present("source") \o present("destination") \o present("kafka")
  /\ resolved' = << >> /\ labels' = << >> /\ secrets' = << >> /\ leaked' = {}
  /\ UNCHANGED <<environ, saved, vaultUp>>

(* Fault: a secret that lacks what is required is used.                       *)
RaisesOnlyUnread(spec) == Unparsable(spec)
(* A secret that lacks a required field raises.                              *)
ReadRaises(spec) ==
  Unparsable(spec) \/ (Secret(spec) # << >> /\ ~Buildable(spec.kind, Head(Secret(spec))))

ResolveBlock(connections) ==
  LET block == Head(blocks)
      spec == connections[block]
      secret == Secret(spec)
  IN  /\ blocks # << >> /\ spec.kind \in KindsOf(block) /\ ~ReadRaises(spec)
      /\ blocks' = Tail(blocks) /\ environ' = AfterRead(spec)
      /\ IF secret = << >>
         THEN UNCHANGED <<resolved, labels, secrets>>
         ELSE /\ resolved' = Overlay(EnvOf(spec, Head(secret)), resolved)
              /\ labels' = Overlay(LabelsOf(spec, Head(secret)), labels)
              /\ secrets' = Overlay([b \in {block} |-> Place(spec)], secrets)
      /\ UNCHANGED <<saved, leaked, vaultUp>>
ResolveRaises(connections) ==
  LET block == Head(blocks)
      spec == connections[block]
  IN  /\ blocks # << >> /\ blocks' = << >>
      /\ IF spec.kind \notin KindsOf(block) THEN UNCHANGED environ
         ELSE ReadRaises(spec) /\ environ' = AfterRead(spec)
      /\ UNCHANGED <<resolved, labels, secrets, saved, leaked, vaultUp>>

(* The variables of the caller win over those of the connections.             *)
AddExtra ==
  \E extra \in ExtraEnvs :
    /\ resolved' = Overlay([v \in extra |-> {At("extra")}], resolved)
    /\ labels' = Overlay([v \in extra |-> Label(At("extra"), FALSE)], labels)
    /\ UNCHANGED <<environ, blocks, secrets, saved, leaked, vaultUp>>

EnterScope ==
  /\ saved' = environ /\ environ' = Overlay(resolved, environ)
  /\ UNCHANGED <<blocks, resolved, labels, secrets, leaked, vaultUp>>
(* The loop that sets them runs before the try: cut off by a key or a value   *)
(* that os.environ refuses, or by an interrupt, it leaves what it set.        *)
EnterCut ==
  \E begun \in Begun :
    LET there == DOMAIN resolved \cap begun
    IN  /\ environ' = Overlay([v \in there |-> resolved[v]], environ) /\ leaked' = there
        /\ UNCHANGED <<blocks, resolved, labels, secrets, saved, vaultUp>>

(* Fault: the variables are removed instead of given back.                   *)
LeaveScopeRemoving ==
  /\ environ' = [v \in DOMAIN environ \ DOMAIN resolved |-> environ[v]]
  /\ saved' = Absent
  /\ UNCHANGED <<blocks, resolved, labels, secrets, leaked, vaultUp>>
(* What "saved" has of the variables in back, and nothing else of them.      *)
Restored(back) ==
  [v \in (DOMAIN environ \ back) \cup (DOMAIN saved \cap back) |-> IF v \in back THEN saved[v] ELSE environ[v]]
LeaveScope ==
  /\ environ' = Restored(DOMAIN resolved) /\ saved' = Absent
  /\ UNCHANGED <<blocks, resolved, labels, secrets, leaked, vaultUp>>
(* An interrupt in the loop that gives them back.                            *)
LeaveCut ==
  \E rest \in Rest :
    /\ environ' = Restored(DOMAIN resolved \ rest) /\ leaked' = DOMAIN resolved \cap rest
    /\ saved' = Absent
    /\ UNCHANGED <<blocks, resolved, labels, secrets, vaultUp>>
===============================================================================
