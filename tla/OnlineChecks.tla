----------------------------- MODULE OnlineChecks -----------------------------
(***************************************************************************)
(* The built-in infra checks: what dlt_utils/core/online_checks.py may find *)
(* out about ClickHouse and Kafka, and what the checks' evaluate makes of    *)
(* it. A result is why nothing was tried, the endpoints that TCP reached,    *)
(* and how the client did, which is tried whether or not TCP reached any.   *)
(***************************************************************************)
EXTENDS Naturals, FiniteSets

CONSTANTS
  Brokers,     \* what bootstrap_servers may list
  Portless,  \* those without a port that int() takes
  EnvBrokers,  \* what <prefix>BOOTSTRAP_SERVERS lists
  Http         \* the endpoint of ClickHouse

Client == {"missing", "ok", "failed"}  \* the library is missing; SELECT 1 or the metadata came, or not
Result(reason, reached, client) == [reason |-> reason, reached |-> reached, client |-> client]
Exception == Result("exception", {}, "none")

(* tcp_check_endpoints: each by itself; an endpoint that cannot be parsed is *)
(* one that was not reached.                                                 *)
Attempts(endpoints) == SUBSET (endpoints \ Portless)

Tried(endpoints) == {Result("tried", reached, client) : reached \in Attempts(endpoints), client \in Client}

(* clickhouse_online_check: a port that is given may be no number, and int() *)
(* raises.                                                                   *)
ClickHouseResults(host, port) ==
  IF ~host THEN {Result("not_configured", {}, "none")}
  ELSE Tried({Http}) \cup (IF port THEN {Exception} ELSE {})

(* kafka_connection_from_manifest_or_env: the manifest's own servers, else   *)
(* those of the variable.                                                    *)
Servers(own, variable) == IF own # {} THEN own ELSE IF variable THEN EnvBrokers ELSE {}

(* kafka_online_check: the metadata comes at one of the polls before the     *)
(* deadline, or not.                                                         *)
KafkaResults(servers) ==
  IF servers = {} THEN {Result("bootstrap_servers_empty", {}, "none")} ELSE Tried(servers)

(* Fault: evaluate does not look at what TCP reached.                        *)
EvaluatedClient(result) ==
  IF result.reason # "tried" THEN IF result = Exception THEN "raised" ELSE "failed"
  ELSE IF result.client = "failed" THEN "failed"
  ELSE IF result.client = "missing" THEN "warned" ELSE "clean"

(* evaluate: errors, else warnings. The record of an exception has none of   *)
(* what it looks at.                                                         *)
Evaluated(result) ==
  IF result = Exception THEN "raised"
  ELSE IF result.reason # "tried" \/ result.reached = {} \/ result.client = "failed" THEN "failed"
  ELSE IF result.client = "missing" THEN "warned" ELSE "clean"

(* A check's outcome, as the report has it.                                  *)
Reported(result) == [class |-> Evaluated(result), reached |-> result.reached, client |-> result.client]
Other(class) == [class |-> class, reached |-> {}, client |-> "none"]
===============================================================================
