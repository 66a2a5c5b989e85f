------------------------------ MODULE KafkaWaiter ------------------------------
(***************************************************************************)
(* The Kafka side of the request/reply pattern: the topics (external) and   *)
(* KafkaPythonWaiter (dlt_utils/adapters/kafka/kafka_python.py), one        *)
(* consumer that is assigned partitions by hand, sought to the end or the   *)
(* beginning, and polled for a record whose key is a correlation id.        *)
(*                                                                          *)
(* A job is identified with the correlation id its trigger returns, so the  *)
(* key of a reply is a job; None is the key of every other record.          *)
(* An offset is the index of a record in its partition, and pos[tp] is the  *)
(* offset of the last record handed to the caller.                          *)
(***************************************************************************)
EXTENDS Naturals, Sequences, FiniteSets

CONSTANTS
  Jobs,        \* correlation ids
  Topics,
  TPs,         \* topic partitions
  TopicOf,     \* TopicOf[tp]: the topic of a partition
  Bodies,      \* what the value of a record is, as far as the caller can tell
  None,        \* "no topic", "no key", "no record"
  MaxPoll,     \* max_poll_records: a poll hands over at most this many records
  EagerSeek    \* TRUE: seek_to_end is resolved at once

ASSUME WaiterAssumption ==
  /\ TopicOf \in [TPs -> Topics]
  /\ None \notin Topics \cup Jobs \cup (TPs \X Nat)
  /\ MaxPoll \in Nat \ {0}
  /\ EagerSeek \in BOOLEAN

VARIABLES
  log,         \* the records of each partition
  consumer,    \* self._consumer is not None
  assigned,    \* the partitions given to consumer.assign
  pos,         \* the consumer's position in each partition
  reset,       \* partitions whose seek_to_end is not resolved yet
  prepared     \* self._prepared.topic, or None

waiterVars == <<consumer, assigned, pos, reset, prepared>>

Record == [key : Jobs \cup {None}, body : Bodies]
PartitionsOf(t) == {tp \in TPs : TopicOf[tp] = t}

WaiterTypeOK ==
  /\ log \in [TPs -> Seq(Record)]
  /\ consumer \in BOOLEAN
  /\ assigned \subseteq TPs
  /\ pos \in [TPs -> Nat]
  /\ \A tp \in TPs : pos[tp] <= Len(log[tp])
  /\ reset \subseteq assigned
  /\ prepared \in Topics \cup {None}

WaiterInit ==
  /\ log = [tp \in TPs |-> <<>>]
  /\ consumer = FALSE
  /\ assigned = {}
  /\ pos = [tp \in TPs |-> 0]
  /\ reset = {}
  /\ prepared = None

-------------------------------------------------------------------------------
(* The topics: a producer appends a record.                                 *)
Append1(tp, key, body) ==
  log' = [log EXCEPT ![tp] = Append(@, [key |-> key, body |-> body])]

-------------------------------------------------------------------------------
(* _wait_partitions polls the consumer for metadata. What these polls bring *)
(* of the partitions assigned so far is dropped, and they resolve a pending *)
(* seek: still are the partitions whose seek is pending after that.         *)
Drained ==
  {p \in [TPs -> UNION {0..Len(log[tp]) : tp \in TPs}] : \A tp \in TPs :
     IF tp \in reset THEN p[tp] = Len(log[tp])
     ELSE IF tp \in assigned THEN p[tp] \in pos[tp]..Len(log[tp])
     ELSE p[tp] = pos[tp]}

MetadataPolls(still) ==
  \/ still = reset /\ UNCHANGED pos
  \/ still = {} /\ pos' \in Drained

PollMetadata ==
  /\ consumer' = TRUE
  /\ reset' \in {reset, {}} /\ MetadataPolls(reset')
  /\ UNCHANGED <<assigned, prepared>>

(* prepare() returned without effect: no consumer could be created, or no   *)
(* partition metadata arrived in time. It only logs; nothing is raised.     *)
PrepareIneffective ==
  \/ ~consumer /\ UNCHANGED waiterVars
  \/ PollMetadata

AtEnd(tps) == [tp \in TPs |-> IF tp \in tps THEN Len(log[tp]) ELSE pos[tp]]
AtStart(tps) == [tp \in TPs |-> IF tp \in tps THEN 0 ELSE pos[tp]]

(* consumer.assign then seek_to_end. When the library resolves the seek is  *)
(* its own business: any time up to the first poll (ResolveSeek below).     *)
SeekToEnd(t) ==
  /\ consumer' = TRUE
  /\ assigned' = PartitionsOf(t)
  /\ IF EagerSeek
       THEN pos' = AtEnd(PartitionsOf(t)) /\ reset' = {}
       ELSE pos' = pos /\ reset' = PartitionsOf(t)
  /\ prepared' = t

SeekToBeginning(t) ==
  /\ consumer' = TRUE
  /\ assigned' = PartitionsOf(t)
  /\ pos' = AtStart(PartitionsOf(t))
  /\ reset' = {}
  /\ prepared' = t

(* An exception leaves prepare: from the library, before or after the       *)
(* assignment, or the ValueError for a start_from that is neither "end" nor *)
(* "beginning", always after it. self._prepared keeps its old value. A      *)
(* newly assigned partition starts at auto_offset_reset="latest".           *)
AssignOnly(t) ==
  /\ consumer' = TRUE
  /\ assigned' = PartitionsOf(t)
  /\ \E still \in {reset, {}} :
       /\ MetadataPolls(still)
       /\ reset' = (still \cup (TPs \ assigned)) \cap PartitionsOf(t)
  /\ UNCHANGED prepared

PrepareRaises(t) == PollMetadata \/ AssignOnly(t)

(* prepare(topic, start_from) for a caller that catches what it raises.     *)
Prepare(t, from) ==
  \/ PrepareIneffective
  \/ from = "end" /\ SeekToEnd(t)
  \/ from = "beginning" /\ SeekToBeginning(t)
  \/ PrepareRaises(t)

(* Fault: the wait prepares again although prepare was done for the topic.   *)
EnterWaitAgain(t) == consumer' = TRUE /\ (PrepareIneffective \/ SeekToEnd(t))

(* The head of wait_for_key and wait_for_any: a consumer that cannot be     *)
(* created ends the call; unless prepare was done for this very topic it is *)
(* done now, at the end, and what it raises goes to the caller.             *)
EnterWait(t) ==
  /\ consumer' = TRUE
  /\ IF prepared = t
       THEN UNCHANGED <<assigned, pos, reset, prepared>>
       ELSE PrepareIneffective \/ SeekToEnd(t)

EnterWaitRaises(t) == prepared # t /\ PrepareRaises(t)

EnterWaitFails == ~consumer /\ UNCHANGED waiterVars

-------------------------------------------------------------------------------
(* The library resolves the pending seeks: the position is the current end. *)
ResolveSeek ==
  /\ reset # {}
  /\ pos' = AtEnd(reset)
  /\ reset' = {}
  /\ UNCHANGED <<log, consumer, assigned, prepared>>

(* One poll hands over, of each assigned partition, take[tp] records that   *)
(* follow the position, MaxPoll in all; the position moves past them.       *)
Takes ==
  {take \in [TPs -> 0..MaxPoll] :
     /\ \A tp \in TPs : take[tp] # 0 => tp \in assigned /\ pos[tp] + take[tp] <= Len(log[tp])
     /\ Cardinality({r \in TPs \X (1..MaxPoll) : r[2] <= take[r[1]]}) <= MaxPoll}

Advance(take) == pos' = [tp \in TPs |-> pos[tp] + take[tp]]

(* The records of the batch that carry one of the keys, and those at which  *)
(* the scan stops: the first of some partition. The order of the partitions *)
(* in the batch is the library's.                                           *)
Matches(take, keys) ==
  {m \in UNION {{tp} \X (pos[tp] + 1 .. pos[tp] + take[tp]) : tp \in TPs} :
     log[m[1]][m[2]].key \in keys}

(* Fault: the scan of a batch does not stop at the first match.             *)
AnyMatches(take, keys) == Matches(take, keys)

FirstMatches(take, keys) ==
  {m \in Matches(take, keys) :
     \A n \in Matches(take, keys) : n[1] = m[1] => m[2] <= n[2]}

(* A poll whose batch has no record for the caller: the loop goes on.       *)
PollWithoutMatch(take, keys) ==
  /\ reset = {}
  /\ Matches(take, keys) = {}
  /\ Advance(take)
  /\ UNCHANGED <<log, consumer, assigned, reset, prepared>>

(* A poll whose batch has a match m: m is returned at once and the rest of  *)
(* the batch is never looked at, though the position is past it.            *)
PollWithMatch(take, keys, m) ==
  /\ reset = {}
  /\ m \in FirstMatches(take, keys)
  /\ Advance(take)
  /\ UNCHANGED <<log, consumer, assigned, reset, prepared>>

(* close(): an exception of the library's close is logged, and the waiter   *)
(* is back where it started.                                                *)
Close ==
  /\ consumer
  /\ consumer' = FALSE
  /\ assigned' = {}
  /\ reset' = {}
  /\ prepared' = None
  /\ UNCHANGED <<log, pos>>
===============================================================================
