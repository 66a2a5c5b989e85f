------------------------------ MODULE KafkaBatch -------------------------------
(***************************************************************************)
(* KafkaJsonAsyncJobRunner.wait_for_any_safe on one KafkaPythonWaiter: the  *)
(* batch workflow its docstring describes. The caller (external: the        *)
(* repository has no integration that does this) prepares the consumer,     *)
(* triggers requests whenever it likes, and waits for the first reply to    *)
(* any request that is still open, again and again.                         *)
(***************************************************************************)
EXTENDS KafkaRunner

CONSTANTS
  Topic,       \* settings.topic of the batch
  HasWaitAny   \* the waiter has wait_for_any (KafkaPythonWaiter has)

ASSUME BatchAssumption ==
  /\ Topic \in Topics
  /\ HasWaitAny \in BOOLEAN

VARIABLES
  stage,       \* of each request: not sent, open, or closed
  keys,        \* what the call in progress waits for; {} between two calls
  dropped      \* history: replies in the rest of a batch whose match was returned

batchVars == <<stage, keys, outcome, got, armed, dropped>>
batchSteps == <<log, waiterVars, batchVars>>

Open == {j \in Jobs : stage[j] = "open"}

(* The types of all variables; a call waits for open requests, and a        *)
(* request is closed exactly when it has an outcome.                        *)
BatchTypeOK ==
  /\ WaiterTypeOK
  /\ stage \in [Jobs -> {"new", "open", "closed"}]
  /\ keys \subseteq Open
  /\ outcome \in [Jobs -> {"pending", "result", "raised"}]
  /\ got \in [Jobs -> (TPs \X Nat) \cup {None}]
  /\ armed \subseteq Jobs
  /\ dropped \subseteq TPs \X Nat
  /\ \A j \in Jobs : stage[j] = "closed" <=> outcome[j] # "pending"

BatchInit ==
  /\ RunnerInit
  /\ stage = [j \in Jobs |-> "new"]
  /\ keys = {}
  /\ dropped = {}

-------------------------------------------------------------------------------
(* External: the caller prepares the consumer before its first request ...  *)
PrepareBatch ==
  /\ \A j \in Jobs : stage[j] = "new"
  /\ Prepare(Topic, "end")
  /\ UNCHANGED <<log, batchVars>>

(* ... and sends a request between two waits.                               *)
Send(j) ==
  /\ keys = {} /\ stage[j] = "new"
  /\ stage' = [stage EXCEPT ![j] = "open"]
  /\ armed' = IF InPosition(Topic) THEN armed \cup {j} ELSE armed
  /\ UNCHANGED <<log, waiterVars, keys, outcome, got, dropped>>

(* External: the service replies to a request.                              *)
Publish(j) ==
  /\ stage[j] # "new"
  /\ \E tp \in PartitionsOf(Topic), body \in Bodies : Room(tp) /\ Append1(tp, j, body)
  /\ UNCHANGED <<waiterVars, batchVars>>

-------------------------------------------------------------------------------
(* wait_for_any_safe(keys = the open requests). A waiter without            *)
(* wait_for_any waits for the first key of the list only.                   *)
BeginAny ==
  /\ keys = {} /\ Open # {}
  /\ \/ EnterWait(Topic) /\ keys' \in (IF HasWaitAny THEN {Open} ELSE {{j} : j \in Open})
     \/ (EnterWaitFails \/ EnterWaitRaises(Topic)) /\ keys' = {}
  /\ UNCHANGED <<log, stage, outcome, got, armed, dropped>>

AnyNothing ==
  /\ keys # {}
  /\ \E take \in Takes : PollWithoutMatch(take, keys)
  /\ UNCHANGED batchVars

(* What wait_for_any_safe makes of the record: undecodable JSON is a result *)
(* without payload, a contract in mode deny raises on an invalid payload.   *)
AnyDecoded(body, mode) == IF body = "invalid" /\ mode = "deny" THEN "raised" ELSE "result"

Answer(j, m, mode) ==
  /\ got' = [got EXCEPT ![j] = m]
  /\ stage' = [stage EXCEPT ![j] = "closed"]
  /\ outcome' = [outcome EXCEPT ![j] = AnyDecoded(log[m[1]][m[2]].body, mode)]

(* The replies of the batch that were waited for too, behind the match m.   *)
Drops(take, m) == dropped' = dropped \cup (Matches(take, keys) \ {m})

(* Fault: the call goes on after a match.                                   *)
AnyReplyGoesOn ==
  /\ keys # {}
  /\ \E take \in Takes : \E m \in FirstMatches(take, keys), mode \in Contracts :
       PollWithMatch(take, keys, m) /\ Answer(log[m[1]][m[2]].key, m, mode) /\ Drops(take, m)
  /\ UNCHANGED <<keys, armed>>

(* Fault: the reply is taken for the one to the first key of the list.      *)
AnyReplyFirstKey ==
  /\ keys # {}
  /\ \E take \in Takes : \E m \in FirstMatches(take, keys), mode \in Contracts :
       PollWithMatch(take, keys, m) /\ Answer(CHOOSE j \in keys : TRUE, m, mode) /\ Drops(take, m)
  /\ keys' = {}
  /\ UNCHANGED armed

(* The first match of the batch ends the call.                              *)
AnyReply ==
  /\ keys # {}
  /\ \E take \in Takes : \E m \in FirstMatches(take, keys), mode \in Contracts :
       PollWithMatch(take, keys, m) /\ Answer(log[m[1]][m[2]].key, m, mode) /\ Drops(take, m)
  /\ keys' = {}
  /\ UNCHANGED armed

(* The deadline has passed (None), or consumer.poll raises: the call ends   *)
(* and every request stays open.                                            *)
EndAny ==
  /\ keys # {}
  /\ keys' = {}
  /\ UNCHANGED <<log, waiterVars, stage, outcome, got, armed, dropped>>

BatchResolve == ResolveSeek /\ UNCHANGED batchVars

PollAny == AnyNothing \/ AnyReply

BatchNext ==
  \/ \E j \in Jobs : Send(j) \/ Publish(j)
  \/ PrepareBatch \/ BeginAny \/ PollAny \/ EndAny \/ BatchResolve

(* The caller waits again while a request is open, and a consumer that is   *)
(* polled again and again hands over what the brokers have.                 *)
BatchFairness ==
  /\ SF_batchSteps(BeginAny /\ keys' # {})
  /\ SF_batchSteps(PollAny /\ pos' # pos)

BatchSpec == BatchInit /\ [][BatchNext]_batchSteps /\ BatchFairness

-------------------------------------------------------------------------------
RepliesTo(j) ==
  {m \in UNION {{tp} \X DOMAIN log[tp] : tp \in PartitionsOf(Topic)} : log[m[1]][m[2]].key = j}

(* The replies a caller can still hope for.                                 *)
Deliverable(j) == RepliesTo(j) \ dropped

(* What the docstring of wait_for_any_safe says of the batch workflow       *)
(* (kafka_async_job.py:217): no reply to an open request is lost while      *)
(* requests overlap. It is not so when a poll hands over several records.   *)
OpenReplyUnread ==
  \A j \in armed \cap Open : \A tp \in PartitionsOf(Topic) :
    tp \in assigned /\ \A i \in 1..pos[tp] : log[tp][i].key # j

(* However many records a poll hands over, there is one way only to lose a  *)
(* reply to an open request: to be behind the reply to another one in the   *)
(* same batch (kafka_python.py:261). All others are ahead of the consumer,  *)
(* whatever ends the calls between them and whatever they prepare.          *)
OpenReplyKept ==
  \A j \in armed \cap Open : \A tp \in PartitionsOf(Topic) :
    tp \in assigned /\ \A i \in 1..pos[tp] : log[tp][i].key = j => <<tp, i>> \in dropped

(* Each call closes one request, with a reply to that request, and no reply *)
(* closes two (wait_for_any_safe takes the correlation id off the record).  *)
OneReplyEach ==
  /\ \A j \in Jobs : got[j] # None => log[got[j][1]][got[j][2]].key = j
  /\ \A j \in Jobs : (got[j] = None) = (stage[j] # "closed")

(* A caller that keeps waiting closes, sooner or later, every request that  *)
(* has a reply, unless all its replies were dropped with the rest of a      *)
(* batch (kafka_python.py:261).                                             *)
RepliesDelivered ==
  \A j \in Jobs : (j \in armed /\ Deliverable(j) # {}) ~> (stage[j] = "closed" \/ Deliverable(j) = {})
===============================================================================
