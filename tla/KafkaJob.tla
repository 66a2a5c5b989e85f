------------------------------- MODULE KafkaJob --------------------------------
(***************************************************************************)
(* KafkaJsonAsyncJobRunner.run_safe (dlt_utils/patterns/kafka_async_job.py) *)
(* on one KafkaPythonWaiter: prepare -> trigger -> wait_for_key -> decode   *)
(* -> contract. Jobs run one after the other on the same waiter; the        *)
(* service that is triggered publishes its replies whenever it likes, also  *)
(* before the trigger returns, late, twice, or never.                       *)
(***************************************************************************)
EXTENDS KafkaRunner

CONSTANTS
  JobTopic,    \* JobTopic[j]: settings.topic, unless it is blank
  StartFroms   \* settings.start_from of the jobs

ASSUME JobAssumption == JobTopic \in [Jobs -> Topics]

VARIABLES
  pc,          \* where run_safe is for each job
  requested    \* jobs whose request the service has accepted

jobVars == <<pc, outcome, got, requested, armed>>
vars == <<log, waiterVars, jobVars>>

Idle == {"new", "done"}
Stages == Idle \cup {"prepared", "sent", "triggered", "waiting"}
Outcomes == {"pending", "result", "none", "raised"}

JobTypeOK ==
  /\ pc \in [Jobs -> Stages]
  /\ outcome \in [Jobs -> Outcomes]
  /\ got \in [Jobs -> (TPs \X Nat) \cup {None}]
  /\ requested \subseteq Jobs
  /\ armed \subseteq Jobs

(* The types of all variables, and that a call is over exactly when it has  *)
(* an outcome.                                                              *)
TypeOK ==
  /\ WaiterTypeOK
  /\ JobTypeOK
  /\ \A j \in Jobs : pc[j] = "done" <=> outcome[j] # "pending"

Init ==
  /\ RunnerInit
  /\ pc = [j \in Jobs |-> "new"]
  /\ requested = {}

Return(j, what) ==
  /\ pc' = [pc EXCEPT ![j] = "done"]
  /\ outcome' = [outcome EXCEPT ![j] = what]

Goto(j, stage) == pc' = [pc EXCEPT ![j] = stage] /\ UNCHANGED outcome

-------------------------------------------------------------------------------
(* run_safe, up to the trigger. One thread: no other call is in progress.   *)
Start(j) ==
  /\ pc[j] = "new"
  /\ \A k \in Jobs : pc[k] \in Idle
  /\ \/ Return(j, "none") /\ UNCHANGED waiterVars      \* settings.topic is blank
     \/ Goto(j, "prepared") /\ \E from \in StartFroms : Prepare(JobTopic[j], from)
  /\ UNCHANGED <<log, got, requested, armed>>

(* trigger() is called: its request reaches the service, or does not.       *)
TriggerSend(j) ==
  /\ pc[j] = "prepared"
  /\ Goto(j, "sent")
  /\ requested' \in {requested, requested \cup {j}}
  /\ armed' = IF InPosition(JobTopic[j]) THEN armed \cup {j} ELSE armed
  /\ UNCHANGED <<log, waiterVars, got>>

(* trigger() returns a correlation id only for an accepted request; it may  *)
(* as well raise, or return an empty or blank id, although the service has  *)
(* the request.                                                             *)
TriggerReturn(j) ==
  /\ pc[j] = "sent"
  /\ \/ j \in requested /\ Goto(j, "triggered")
     \/ Return(j, "none")
  /\ UNCHANGED <<log, waiterVars, got, requested, armed>>

(* wait_for_key: no consumer, or a prepare that raises, or the loop.        *)
BeginWait(j) ==
  /\ pc[j] = "triggered"
  /\ \/ EnterWaitFails /\ Return(j, "none")
     \/ EnterWait(JobTopic[j]) /\ Goto(j, "waiting")
     \/ EnterWaitRaises(JobTopic[j]) /\ Return(j, "raised")
  /\ UNCHANGED <<log, got, requested, armed>>

PollNothing(j) ==
  /\ pc[j] = "waiting"
  /\ \E take \in Takes : PollWithoutMatch(take, {j})
  /\ UNCHANGED jobVars

(* What run_safe makes of the record: undecodable JSON gives None, a        *)
(* contract in mode deny raises on an invalid payload.                      *)
Decoded(body, mode) ==
  CASE body = "garbage" -> "none"
    [] body = "invalid" /\ mode = "deny" -> "raised"
    [] OTHER -> "result"

PollReply(j) ==
  /\ pc[j] = "waiting"
  /\ \E take \in Takes : \E m \in FirstMatches(take, {j}), mode \in Contracts :
       /\ PollWithMatch(take, {j}, m)
       /\ got' = [got EXCEPT ![j] = m]
       /\ Return(j, Decoded(log[m[1]][m[2]].body, mode))
  /\ UNCHANGED <<requested, armed>>

(* Fault: the clock is looked at only when a poll brought records.           *)
TimeUpAfterRecords(j) ==
  /\ pc[j] = "waiting" /\ \E take \in Takes : \E tp \in TPs : take[tp] # 0
  /\ Return(j, "none")
  /\ UNCHANGED <<log, waiterVars, got, requested, armed>>

(* time.time() has reached end_time when the loop looks: None.              *)
TimeUp(j) ==
  /\ pc[j] = "waiting"
  /\ Return(j, "none")
  /\ UNCHANGED <<log, waiterVars, got, requested, armed>>

(* consumer.poll raises; nothing between here and the caller catches it.    *)
PollRaises(j) ==
  /\ pc[j] = "waiting"
  /\ Return(j, "raised")
  /\ UNCHANGED <<log, waiterVars, got, requested, armed>>

(* The caller leaves the waiter's with block between two jobs.              *)
CloseWaiter ==
  /\ \A j \in Jobs : pc[j] \in Idle
  /\ Close
  /\ UNCHANGED jobVars

-------------------------------------------------------------------------------
(* External: the service replies, on the topic it was asked to, to a        *)
(* request it has accepted; other producers write records of their own,     *)
(* whose value nobody looks at.                                             *)
PublishReply(j) ==
  /\ j \in requested
  /\ \E tp \in PartitionsOf(JobTopic[j]), body \in Bodies : Room(tp) /\ Append1(tp, j, body)
  /\ UNCHANGED <<waiterVars, jobVars>>

PublishOther ==
  /\ \E tp \in TPs : Room(tp) /\ Append1(tp, None, CHOOSE body \in Bodies : TRUE)
  /\ UNCHANGED <<waiterVars, jobVars>>

Resolve == ResolveSeek /\ UNCHANGED jobVars

Run(j) ==
  \/ Start(j) \/ TriggerSend(j) \/ TriggerReturn(j) \/ BeginWait(j)
  \/ PollNothing(j) \/ PollReply(j) \/ TimeUp(j) \/ PollRaises(j)

Next ==
  \/ \E j \in Jobs : Run(j) \/ PublishReply(j)
  \/ PublishOther \/ Resolve \/ CloseWaiter

(* The calling thread is scheduled, trigger() comes back (the HTTP client   *)
(* has a timeout) and the wall clock passes end_time.                       *)
Fairness ==
  \A j \in Jobs :
    /\ WF_vars(TriggerSend(j)) /\ WF_vars(TriggerReturn(j))
    /\ WF_vars(BeginWait(j)) /\ WF_vars(TimeUp(j))

Spec == Init /\ [][Next]_vars /\ Fairness

-------------------------------------------------------------------------------
InFlight(j) == pc[j] \in {"sent", "triggered", "waiting"}
Unread(j) ==
  \A tp \in PartitionsOf(JobTopic[j]) :
    tp \in assigned /\ \A i \in 1..pos[tp] : log[tp][i].key # j

(* When the consumer was in position before the request was sent, the reply *)
(* cannot be missed: until the call ends every reply to it is still ahead   *)
(* of the consumer, whatever else is polled, published or re-prepared       *)
(* meanwhile (kafka_async_job.py run_safe, kafka_python.py wait_for_key).   *)
ArmedReplyUnread == \A j \in armed : InFlight(j) => Unread(j) /\ reset = {}

(* A returned record answers this very request, comes from the job's topic, *)
(* and, when the consumer was in position, is the first reply of its        *)
(* partition, however many late replies to earlier calls are around         *)
(* (kafka_python.py wait_for_key).                                          *)
FirstReplyReturned ==
  \A j \in Jobs : got[j] # None =>
    LET tp == got[j][1]  i == got[j][2] IN
    /\ tp \in PartitionsOf(JobTopic[j])
    /\ log[tp][i].key = j
    /\ j \in armed => \A k \in 1..(i - 1) : log[tp][k].key # j

(* Every call of run_safe that started ends (kafka_async_job.py run_safe).  *)
CallsEnd == \A j \in Jobs : pc[j] = "prepared" ~> pc[j] = "done"
===============================================================================
