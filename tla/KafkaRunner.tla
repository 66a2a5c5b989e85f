------------------------------ MODULE KafkaRunner ------------------------------
(***************************************************************************)
(* What run_safe and wait_for_any_safe of KafkaJsonAsyncJobRunner           *)
(* (dlt_utils/patterns/kafka_async_job.py) have in common: one waiter, and   *)
(* requests that are sent and answered.                                     *)
(***************************************************************************)
EXTENDS KafkaWaiter

CONSTANTS
  Contracts,   \* payload contract modes: "off", "warn", "deny"
  MaxLog       \* bound: records of one partition

ASSUME RunnerAssumption == Bodies # {} /\ MaxLog \in Nat

VARIABLES
  outcome,     \* of each request: what came of it, a result, None, or an exception
  got,         \* the record that was returned for it, as <<partition, offset>>
  armed        \* requests sent while the consumer was in position

RunnerInit ==
  /\ WaiterInit
  /\ outcome = [j \in Jobs |-> "pending"]
  /\ got = [j \in Jobs |-> None]
  /\ armed = {}

(* The consumer reads what the topic gets from now on.                      *)
InPosition(t) == prepared = t /\ assigned = PartitionsOf(t) /\ reset = {}

Room(tp) == Len(log[tp]) < MaxLog
===============================================================================
