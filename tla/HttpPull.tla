------------------------------- MODULE HttpPull -------------------------------
(***************************************************************************)
(* The HTTP client's retries (dlt_utils/adapters/http/requests_client.py),   *)
(* the polling helper (dlt_utils/patterns/polling.py) and the taxonomy that   *)
(* names the error a run ended with (dlt_utils/core/error_taxonomy.py).       *)
(*                                                                         *)
(* An answer is a status, a body and the words of the body that the taxonomy   *)
(* looks for; the status Lost stands for a request that ended in a             *)
(* requests.RequestException, whether or not it arrived.                       *)
(***************************************************************************)
EXTENDS Naturals

Lost    == 0
NotJson == "not-json"
Nothing == "nothing"        \* Python's None

RetryStatusCodes == {429, 500, 502, 503, 504}

Ok(expected, status) == IF expected # {} THEN status \in expected ELSE status \in 200..299

Error(class, status, words) == [class |-> class, status |-> status, words |-> words]

(* request_json after one answer: another attempt, the body, or an exception. *)
(* Fault: a body that is not JSON is asked for again. *)
AnsweredAskAgain(ans, attempt, retries, expected) ==
  LET bad == ~Ok(expected, ans.status) \/ ans.body = NotJson
      class == IF ans.status = Lost THEN "HttpRequestError" ELSE "HttpResponseError"
  IN IF bad /\ attempt <= retries THEN [again |-> TRUE]
     ELSE IF bad THEN [raise |-> Error(class, ans.status, ans.words)]
     ELSE [return |-> ans.body]
Answered(ans, attempt, retries, expected) ==
  LET bad == ~Ok(expected, ans.status)
      class == IF ans.status = Lost THEN "HttpRequestError" ELSE "HttpResponseError"
  IN IF bad /\ attempt <= retries /\ ans.status \in RetryStatusCodes \cup {Lost} THEN [again |-> TRUE]
     ELSE IF bad \/ ans.body = NotJson THEN [raise |-> Error(class, ans.status, ans.words)]
     ELSE [return |-> ans.body]

(* poll_until after the call number i: fn's value, Nothing where it raised; with *)
(* no attempts fn is never called. The caller's is_done waits for any value.      *)
IsDone(value) == value # Nothing
PollStart(attempts) == IF attempts = 0 THEN [success |-> FALSE, value |-> Nothing] ELSE [again |-> TRUE]
(* Fault: the value of the last attempt is not looked at. *)
PolledUnseen(value, i, attempts) ==
  IF i < attempts THEN IF IsDone(value) THEN [success |-> TRUE, value |-> value] ELSE [again |-> TRUE]
  ELSE [success |-> FALSE, value |-> value]
Polled(value, i, attempts) ==
  IF IsDone(value) THEN [success |-> TRUE, value |-> value]
  ELSE IF i < attempts THEN [again |-> TRUE]
  ELSE [success |-> FALSE, value |-> value]

-------------------------------------------------------------------------------
(* classify_exception: the classes it knows come first, then the words of the *)
(* message, of which an exception has some; the first that fits decides.      *)
Info(category, code, retryable) ==
  [category |-> category, code |-> code, retryable |-> retryable]

ClassifyResponse(status) ==
  IF status \in {401, 403} THEN Info("AUTH", "http_auth", FALSE)
  ELSE IF status = 429 THEN Info("HTTP", "http_rate_limit", TRUE)
  ELSE IF status \in 500..599 THEN Info("HTTP", "http_5xx", TRUE)
  ELSE IF status \in 400..499 THEN Info("HTTP", "http_4xx", FALSE)
  ELSE Info("HTTP", "http_unexpected", FALSE)

ClassInfo(e) ==
  CASE e.class = "DryRunStrictError" -> Info("CONFIG", "dry_run_strict_failed", FALSE)
    [] e.class = "KafkaAsyncJobTimeoutError" -> Info("TIMEOUT", "kafka_wait_timeout", TRUE)
    [] e.class = "KafkaAsyncJobDecodeError" -> Info("DATA", "kafka_message_decode", FALSE)
    [] e.class = "KafkaAsyncJobTriggerError" -> Info("HTTP", "async_trigger_failed", TRUE)
    [] e.class = "PayloadContractViolation" -> Info("DATA", "payload_contract_violation", FALSE)
    [] e.class = "HttpRequestError" -> Info("CONNECTIVITY", "http_transport", TRUE)
    [] e.class = "HttpResponseError" -> ClassifyResponse(e.status)
    [] e.class = "ValidationError" -> Info("CONFIG", "manifest_schema_validation", FALSE)

WordInfo(e) ==
  CASE "ReplacePolicyHook" \in e.words -> Info("POLICY", "replace_blocked", FALSE)
    [] e.words \cap {"kafka-python", "clickhouse-connect"} # {} -> Info("DEPENDENCY", "dependency_missing", FALSE)
    [] OTHER ->
       IF e.class = "TimeoutError" \/ "timeout" \in e.words THEN Info("TIMEOUT", "timeout", TRUE)
       ELSE IF "unauthorized" \in e.words THEN Info("AUTH", "auth_failed", FALSE)
       ELSE IF "secret" \in e.words THEN Info("SECRETS", "secrets_resolution", FALSE)
       ELSE IF "refused" \in e.words THEN Info("CONNECTIVITY", "network", TRUE)
       ELSE IF "schema" \in e.words THEN Info("DATA", "data_validation", FALSE)
       ELSE IF e.class \in {"ValueError", "KeyError"} THEN Info("CONFIG", "invalid_config", FALSE)
       ELSE Info("UNKNOWN", "unknown", FALSE)

KnownClasses == {"DryRunStrictError", "KafkaAsyncJobTimeoutError", "KafkaAsyncJobDecodeError",
                 "KafkaAsyncJobTriggerError", "PayloadContractViolation", "HttpRequestError",
                 "HttpResponseError", "ValidationError"}
Classify(e) == IF e.class \in KnownClasses THEN ClassInfo(e) ELSE WordInfo(e)
===============================================================================
