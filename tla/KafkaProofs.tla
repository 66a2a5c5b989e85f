------------------------------ MODULE KafkaProofs ------------------------------
(***************************************************************************)
(* What holds of KafkaJob and of KafkaBatch for every set of jobs, topics   *)
(* and partitions, logs of any length and any start of the consumer. One    *)
(* call after the other: a consumer in position when the trigger is sent    *)
(* misses no reply, and what is returned is the first reply to this very    *)
(* request. Overlapping requests: no reply closes a request it is not for,  *)
(* and with polls of one record none is lost.                               *)
(***************************************************************************)
EXTENDS KafkaJob, KafkaBatch, FiniteSetTheorems, TLAPS

(* One thread makes the calls.                                              *)
OneCall == \A j, k \in Jobs : pc[j] \notin Idle /\ pc[k] \notin Idle => j = k

(* A record with a key is a reply: to a request the service has accepted, on *)
(* the topic it was asked to answer on.                                      *)
Replies ==
  \A tp \in TPs : \A i \in 1..Len(log[tp]) :
    log[tp][i].key # None => log[tp][i].key \in requested /\ TopicOf[tp] = JobTopic[log[tp][i].key]

(* Nothing was sent for a job before its trigger.                           *)
Fresh == \A j \in Jobs : pc[j] \in {"new", "prepared"} => j \notin requested /\ j \notin armed

(* Between the trigger and the end of the call the consumer stays where it  *)
(* was armed, so nothing prepares, seeks or drains it.                      *)
StaysArmed == \A j \in armed : InFlight(j) => InPosition(JobTopic[j]) /\ Unread(j)

(* What was returned is in the log, and its call is over.                   *)
Returned ==
  \A j \in Jobs : got[j] # None =>
    pc[j] = "done" /\ got[j][1] \in TPs /\ got[j][2] \in 1..Len(log[got[j][1]])

IInv == TypeOK /\ OneCall /\ Replies /\ Fresh /\ StaysArmed /\ Returned /\ FirstReplyReturned

-------------------------------------------------------------------------------
LEMMA PartitionsTyped == ASSUME NEW t PROVE PartitionsOf(t) \subseteq TPs
BY DEF PartitionsOf

(* A producer appends: what was in the log stays where it was.              *)
LEMMA AppendKeeps ==
  ASSUME WaiterTypeOK, NEW tp \in TPs, NEW key \in Jobs \cup {None}, NEW body \in Bodies,
         Append1(tp, key, body)
  PROVE  /\ log' \in [TPs -> Seq(Record)]
         /\ \A q \in TPs : /\ Len(log[q]) \in Nat /\ Len(log'[q]) \in Nat
                           /\ Len(log[q]) <= Len(log'[q])
                           /\ \A i \in 1..Len(log[q]) : log'[q][i] = log[q][i]
                           /\ \A i \in 1..Len(log'[q]) :
                                i \in 1..Len(log[q]) \/ (q = tp /\ log'[q][i].key = key)
<1> DEFINE new == [key |-> key, body |-> body]
<1>1. log \in [TPs -> Seq(Record)] /\ new \in Record
  BY DEF WaiterTypeOK, Record
<1>2. /\ Append(log[tp], new) \in Seq(Record) /\ Len(log[tp]) \in Nat
      /\ Len(Append(log[tp], new)) = Len(log[tp]) + 1
      /\ \A i \in 1..Len(log[tp]) : Append(log[tp], new)[i] = log[tp][i]
      /\ Append(log[tp], new)[Len(log[tp]) + 1] = new
  BY <1>1
<1>3. /\ log'[tp] = Append(log[tp], new) /\ \A q \in TPs \ {tp} : log'[q] = log[q]
      /\ DOMAIN log' = TPs
  BY <1>1 DEF Append1
<1>4. log' \in [TPs -> Seq(Record)]
  BY <1>1, <1>2 DEF Append1
<1>5. ASSUME NEW q \in TPs
      PROVE  /\ Len(log[q]) \in Nat /\ Len(log'[q]) \in Nat
             /\ Len(log[q]) <= Len(log'[q])
             /\ \A i \in 1..Len(log[q]) : log'[q][i] = log[q][i]
             /\ \A i \in 1..Len(log'[q]) :
                  i \in 1..Len(log[q]) \/ (q = tp /\ log'[q][i].key = key)
  <2>1. CASE q = tp
    <3>1. new.key = key
      OBVIOUS
    <3> HIDE DEF new
    <3>2. \A i \in 1..(Len(log[tp]) + 1) : i \in 1..Len(log[tp]) \/ i = Len(log[tp]) + 1
      BY <1>2
    <3> QED BY <1>2, <1>3, <2>1, <3>1, <3>2
  <2>2. CASE q # tp
    <3>1. log'[q] = log[q] /\ Len(log[q]) \in Nat
      BY <1>1, <1>3, <2>2
    <3> QED BY <3>1
  <2> QED BY <2>1, <2>2
<1> QED BY <1>4, <1>5

(* The consumer keeps its types and stays within the log, whatever moves it. *)
LEMMA MetadataTyped ==
  ASSUME WaiterTypeOK, NEW still, MetadataPolls(still)
  PROVE  pos' \in [TPs -> Nat] /\ \A tp \in TPs : pos'[tp] <= Len(log[tp])
<1>1. CASE UNCHANGED pos
  BY <1>1 DEF WaiterTypeOK
<1>2. CASE pos' \in Drained
  <2>1. \A tp \in TPs : Len(log[tp]) \in Nat
    BY DEF WaiterTypeOK
  <2>2. pos' \in [TPs -> UNION {0..Len(log[tp]) : tp \in TPs}]
    BY <1>2 DEF Drained
  <2>3. UNION {0..Len(log[tp]) : tp \in TPs} \subseteq Nat
    BY <2>1
  <2>4. pos' \in [TPs -> Nat]
    BY <2>2, <2>3
  <2>5. ASSUME NEW tp \in TPs PROVE pos'[tp] <= Len(log[tp])
    BY <1>2, <2>1 DEF Drained, WaiterTypeOK
  <2> QED BY <2>4, <2>5
<1> QED BY <1>1, <1>2 DEF MetadataPolls

LEMMA WaiterMoves ==
  ASSUME WaiterTypeOK, UNCHANGED log, consumer' \in BOOLEAN, assigned' \subseteq TPs,
         reset' \subseteq assigned', prepared' \in Topics \cup {None},
         pos' \in [TPs -> Nat], \A tp \in TPs : pos'[tp] <= Len(log[tp])
  PROVE  WaiterTypeOK'
BY DEF WaiterTypeOK

LEMMA PollMetadataTyped ==
  ASSUME WaiterTypeOK, UNCHANGED log, PollMetadata PROVE WaiterTypeOK'
<1>1. pos' \in [TPs -> Nat] /\ \A tp \in TPs : pos'[tp] <= Len(log[tp])
  BY MetadataTyped DEF PollMetadata
<1>2. consumer' = TRUE /\ assigned' = assigned /\ prepared' = prepared /\ reset' \subseteq reset
  BY DEF PollMetadata
<1> QED BY <1>1, <1>2, WaiterMoves DEF WaiterTypeOK

LEMMA IneffectiveTyped ==
  ASSUME WaiterTypeOK, UNCHANGED log, PrepareIneffective PROVE WaiterTypeOK'
<1>1. CASE UNCHANGED waiterVars
  BY <1>1 DEF waiterVars, WaiterTypeOK
<1> QED BY <1>1, PollMetadataTyped DEF PrepareIneffective

LEMMA SeekEndTyped ==
  ASSUME WaiterTypeOK, UNCHANGED log, NEW t \in Topics, SeekToEnd(t) PROVE WaiterTypeOK'
<1>1. pos' \in [TPs -> Nat] /\ \A tp \in TPs : pos'[tp] <= Len(log[tp])
  <2>1. \A tp \in TPs : Len(log[tp]) \in Nat
    BY DEF WaiterTypeOK
  <2> QED BY <2>1, PartitionsTyped DEF SeekToEnd, AtEnd, WaiterTypeOK
<1>2. consumer' = TRUE /\ assigned' = PartitionsOf(t) /\ prepared' = t /\ reset' \subseteq PartitionsOf(t)
  BY DEF SeekToEnd
<1> QED BY <1>1, <1>2, PartitionsTyped, WaiterMoves

LEMMA SeekStartTyped ==
  ASSUME WaiterTypeOK, UNCHANGED log, NEW t \in Topics, SeekToBeginning(t) PROVE WaiterTypeOK'
<1>1. pos' \in [TPs -> Nat] /\ \A tp \in TPs : pos'[tp] <= Len(log[tp])
  <2>1. \A tp \in TPs : Len(log[tp]) \in Nat
    BY DEF WaiterTypeOK
  <2> QED BY <2>1, PartitionsTyped DEF SeekToBeginning, AtStart, WaiterTypeOK
<1>2. consumer' = TRUE /\ assigned' = PartitionsOf(t) /\ prepared' = t /\ reset' = {}
  BY DEF SeekToBeginning
<1> QED BY <1>1, <1>2, PartitionsTyped, WaiterMoves

LEMMA RaisesTyped ==
  ASSUME WaiterTypeOK, UNCHANGED log, NEW t \in Topics, PrepareRaises(t) PROVE WaiterTypeOK'
<1>1. CASE AssignOnly(t)
  <2>1. pos' \in [TPs -> Nat] /\ \A tp \in TPs : pos'[tp] <= Len(log[tp])
    BY <1>1, MetadataTyped DEF AssignOnly
  <2>2. consumer' = TRUE /\ assigned' = PartitionsOf(t) /\ prepared' = prepared /\ reset' \subseteq PartitionsOf(t)
    BY <1>1 DEF AssignOnly
  <2> QED BY <2>1, <2>2, PartitionsTyped, WaiterMoves DEF WaiterTypeOK
<1> QED BY <1>1, PollMetadataTyped DEF PrepareRaises

LEMMA PrepareTyped ==
  ASSUME WaiterTypeOK, UNCHANGED log, NEW t \in Topics, NEW from, Prepare(t, from) PROVE WaiterTypeOK'
BY IneffectiveTyped, SeekEndTyped, SeekStartTyped, RaisesTyped DEF Prepare

LEMMA EnterWaitTyped ==
  ASSUME WaiterTypeOK, UNCHANGED log, NEW t \in Topics, EnterWait(t) PROVE WaiterTypeOK'
<1>1. CASE prepared = t
  BY <1>1 DEF EnterWait, WaiterTypeOK
<1> QED BY <1>1, IneffectiveTyped, SeekEndTyped DEF EnterWait

(* A poll moves only within the assigned partitions.                        *)
LEMMA PollTyped ==
  ASSUME WaiterTypeOK, NEW take \in Takes, Advance(take),
         UNCHANGED <<log, consumer, assigned, reset, prepared>>
  PROVE  /\ WaiterTypeOK'
         /\ \A tp \in TPs : pos'[tp] = pos[tp] + take[tp] /\ take[tp] \in Nat
<1>1. take \in [TPs -> 0..MaxPoll] /\ MaxPoll \in Nat
  BY WaiterAssumption DEF Takes
<1>2. \A tp \in TPs : take[tp] # 0 => pos[tp] + take[tp] <= Len(log[tp])
  BY DEF Takes
<1>3. pos \in [TPs -> Nat] /\ \A tp \in TPs : pos[tp] <= Len(log[tp])
  BY DEF WaiterTypeOK
<1>4. pos' = [tp \in TPs |-> pos[tp] + take[tp]]
  BY DEF Advance
<1>5. \A tp \in TPs : take[tp] \in Nat
  BY <1>1
<1>6. pos' \in [TPs -> Nat]
  BY <1>3, <1>4, <1>5
<1>7. \A tp \in TPs : pos'[tp] <= Len(log[tp])
  BY <1>2, <1>3, <1>4, <1>5
<1> QED BY <1>4, <1>5, <1>6, <1>7, WaiterMoves DEF WaiterTypeOK

-------------------------------------------------------------------------------
(* run_safe returns or raises, ...                                          *)
LEMMA ReturnMoves ==
  ASSUME TypeOK, NEW j \in Jobs, NEW what \in {"result", "none", "raised"}, Return(j, what)
  PROVE  /\ pc' \in [Jobs -> Stages] /\ outcome' \in [Jobs -> Outcomes]
         /\ \A k \in Jobs : pc'[k] = "done" <=> outcome'[k] # "pending"
         /\ pc'[j] = "done" /\ \A k \in Jobs : k # j => pc'[k] = pc[k]
BY DEF TypeOK, JobTypeOK, Return, Stages, Idle, Outcomes

(* ... or it goes on.                                                       *)
LEMMA GotoMoves ==
  ASSUME TypeOK, NEW j \in Jobs, NEW to \in Stages \ {"done"}, pc[j] # "done", Goto(j, to)
  PROVE  /\ pc' \in [Jobs -> Stages] /\ outcome' \in [Jobs -> Outcomes]
         /\ \A k \in Jobs : pc'[k] = "done" <=> outcome'[k] # "pending"
         /\ pc'[j] = to /\ \A k \in Jobs : k # j => pc'[k] = pc[k]
BY DEF TypeOK, JobTypeOK, Goto, Stages, Idle, Outcomes

(* What the steps of a call have to show that neither write to the log nor  *)
(* send or receive anything.                                                *)
LEMMA QuietStep ==
  ASSUME IInv, NEW j \in Jobs, UNCHANGED <<log, got, requested, armed>>, WaiterTypeOK',
         pc' \in [Jobs -> Stages], outcome' \in [Jobs -> Outcomes],
         \A k \in Jobs : pc'[k] = "done" <=> outcome'[k] # "pending",
         \A k \in Jobs : k # j => pc'[k] = pc[k],
         pc[j] # "done",
         pc[j] \notin Idle \/ \A k \in Jobs : pc[k] \in Idle,
         pc'[j] \in {"new", "prepared"} => pc[j] \in {"new", "prepared"},
         StaysArmed'
  PROVE  IInv'
<1>1. TypeOK'
  BY DEF IInv, TypeOK, JobTypeOK
<1>2. OneCall'
  <2>1. \A k \in Jobs : k # j => pc'[k] \in Idle
    BY DEF IInv, OneCall
  <2> QED BY <2>1 DEF OneCall
<1>3. Replies'
  BY DEF IInv, Replies
<1>4. Fresh'
  BY DEF IInv, Fresh
<1>5. Returned'
  BY DEF IInv, Returned
<1>6. FirstReplyReturned'
  BY DEF IInv, FirstReplyReturned
<1> QED BY <1>1, <1>2, <1>3, <1>4, <1>5, <1>6 DEF IInv

(* Only the call in progress may be armed and in flight.                    *)
LEMMA OneArmed ==
  ASSUME IInv, NEW j \in Jobs, pc[j] \notin Idle, NEW k \in armed, InFlight(k)
  PROVE  k = j
BY DEF IInv, TypeOK, JobTypeOK, OneCall, InFlight, Idle

LEMMA StaysArmedUnmoved ==
  ASSUME IInv, UNCHANGED <<log, armed, assigned, pos, reset, prepared>>,
         \A k \in armed : InFlight(k)' => InFlight(k)
  PROVE  StaysArmed'
BY DEF IInv, StaysArmed, InPosition, Unread

(* A step of a call that leaves the waiter alone.                           *)
LEMMA StillStep ==
  ASSUME IInv, NEW j \in Jobs, UNCHANGED <<log, waiterVars, got, requested, armed>>,
         pc' \in [Jobs -> Stages], outcome' \in [Jobs -> Outcomes],
         \A k \in Jobs : pc'[k] = "done" <=> outcome'[k] # "pending",
         \A k \in Jobs : k # j => pc'[k] = pc[k],
         pc[j] \in {"sent", "triggered", "waiting"},
         pc'[j] \in {"triggered", "waiting", "done"}
  PROVE  IInv'
<1>1. WaiterTypeOK'
  BY DEF IInv, TypeOK, waiterVars, WaiterTypeOK
<1>2. \A k \in armed : InFlight(k)' => InFlight(k)
  BY DEF IInv, TypeOK, JobTypeOK, InFlight
<1>3. StaysArmed'
  BY <1>2, StaysArmedUnmoved DEF waiterVars
<1> QED BY <1>1, <1>3, QuietStep DEF Idle

-------------------------------------------------------------------------------
LEMMA RunnerStarts ==
  ASSUME RunnerInit
  PROVE  WaiterTypeOK /\ \A tp \in TPs : log[tp] = << >>
<1>1. \A tp \in TPs : log[tp] = << >> /\ pos[tp] = 0
  BY DEF RunnerInit, WaiterInit
<1>2. << >> \in Seq(Record) /\ Len(<< >>) = 0
  OBVIOUS
<1>3. log \in [TPs -> Seq(Record)]
  BY <1>2 DEF RunnerInit, WaiterInit
<1>4. pos \in [TPs -> Nat] /\ \A tp \in TPs : pos[tp] <= Len(log[tp])
  BY <1>1, <1>2 DEF RunnerInit, WaiterInit
<1>5. consumer \in BOOLEAN /\ assigned \subseteq TPs /\ reset \subseteq assigned /\ prepared \in Topics \cup {None}
  BY DEF RunnerInit, WaiterInit
<1> QED BY <1>1, <1>3, <1>4, <1>5 DEF WaiterTypeOK

LEMMA InitIInv == Init => IInv
<1> SUFFICES ASSUME Init PROVE IInv
  OBVIOUS
<1>1. WaiterTypeOK /\ \A tp \in TPs : log[tp] = << >>
  BY RunnerStarts DEF Init
<1>2. TypeOK
  BY <1>1 DEF Init, RunnerInit, TypeOK, JobTypeOK, Stages, Idle, Outcomes
<1>3. OneCall /\ Fresh /\ StaysArmed
  BY DEF Init, RunnerInit, OneCall, Fresh, StaysArmed, Idle
<1>4. Replies
  <2>1. \A tp \in TPs : Len(log[tp]) = 0
    BY <1>1
  <2> QED BY <2>1 DEF Replies
<1>5. Returned /\ FirstReplyReturned
  BY DEF Init, RunnerInit, Returned, FirstReplyReturned
<1> QED BY <1>2, <1>3, <1>4, <1>5 DEF IInv

LEMMA StartStep == ASSUME IInv, NEW j \in Jobs, Start(j) PROVE IInv'
<1>1. TypeOK /\ WaiterTypeOK /\ pc[j] = "new" /\ JobTopic[j] \in Topics
  BY JobAssumption DEF IInv, TypeOK, Start
<1>2. \A k \in Jobs : pc[k] \in Idle
  BY DEF Start
<1>3. UNCHANGED <<log, got, requested, armed>>
  BY DEF Start
<1>4. CASE Return(j, "none") /\ UNCHANGED waiterVars
  <2>1. WaiterTypeOK'
    BY <1>1, <1>3, <1>4 DEF waiterVars, WaiterTypeOK
  <2>2. /\ pc' \in [Jobs -> Stages] /\ outcome' \in [Jobs -> Outcomes]
        /\ \A k \in Jobs : pc'[k] = "done" <=> outcome'[k] # "pending"
        /\ pc'[j] = "done" /\ \A k \in Jobs : k # j => pc'[k] = pc[k]
    BY <1>1, <1>4, ReturnMoves
  <2>3. StaysArmed'
    BY <1>1, <1>2, <1>3, <2>2 DEF StaysArmed, InFlight, Idle, TypeOK, JobTypeOK
  <2> QED BY <1>1, <1>2, <1>3, <2>1, <2>2, <2>3, QuietStep
<1>5. CASE Goto(j, "prepared") /\ \E from \in StartFroms : Prepare(JobTopic[j], from)
  <2>1. WaiterTypeOK'
    BY <1>1, <1>3, <1>5, PrepareTyped
  <2>2. /\ pc' \in [Jobs -> Stages] /\ outcome' \in [Jobs -> Outcomes]
        /\ \A k \in Jobs : pc'[k] = "done" <=> outcome'[k] # "pending"
        /\ pc'[j] = "prepared" /\ \A k \in Jobs : k # j => pc'[k] = pc[k]
    BY <1>1, <1>5, GotoMoves DEF Stages, Idle
  <2>3. StaysArmed'
    BY <1>1, <1>2, <1>3, <2>2 DEF StaysArmed, InFlight, Idle, TypeOK, JobTypeOK
  <2> QED BY <1>1, <1>2, <1>3, <2>1, <2>2, <2>3, QuietStep
<1> QED BY <1>4, <1>5 DEF Start

(* The reply to a request is behind the consumer's position when it is sent: *)
(* nothing was published under its key before.                              *)
LEMMA TriggerSendStep == ASSUME IInv, NEW j \in Jobs, TriggerSend(j) PROVE IInv'
<1>1. /\ TypeOK /\ WaiterTypeOK /\ JobTypeOK /\ pc[j] = "prepared"
      /\ UNCHANGED <<log, waiterVars, got>>
      /\ requested' \in {requested, requested \cup {j}}
      /\ armed' = IF InPosition(JobTopic[j]) THEN armed \cup {j} ELSE armed
      /\ Goto(j, "sent")
  BY DEF IInv, TypeOK, TriggerSend
<1>2. /\ pc' \in [Jobs -> Stages] /\ outcome' \in [Jobs -> Outcomes]
      /\ \A k \in Jobs : pc'[k] = "done" <=> outcome'[k] # "pending"
      /\ pc'[j] = "sent" /\ \A k \in Jobs : k # j => pc'[k] = pc[k]
  BY <1>1, GotoMoves DEF Stages, Idle
<1>3. \A k \in Jobs : k # j => pc[k] \in Idle
  BY <1>1 DEF IInv, OneCall, Idle
<1>4. TypeOK'
  <2>1. WaiterTypeOK'
    BY <1>1 DEF waiterVars, WaiterTypeOK
  <2>2. requested' \subseteq Jobs /\ armed' \subseteq Jobs /\ got' = got
    BY <1>1 DEF JobTypeOK
  <2> QED BY <1>1, <1>2, <2>1, <2>2 DEF TypeOK, JobTypeOK
<1>5. OneCall'
  BY <1>2, <1>3 DEF OneCall
<1>6. Replies'
  <2>1. log' = log /\ requested \subseteq requested'
    BY <1>1
  <2> QED BY <2>1 DEF IInv, Replies
<1>7. Fresh'
  <2>1. \A k \in Jobs : pc'[k] \in {"new", "prepared"} => k # j /\ pc[k] \in {"new", "prepared"}
    BY <1>2
  <2> QED BY <1>1, <2>1 DEF IInv, Fresh
<1>8. j \notin requested /\ j \notin armed /\ got[j] = None
  BY <1>1 DEF IInv, Fresh, Returned
<1>9. StaysArmed'
  <2>1. ASSUME NEW k \in armed', InFlight(k)' PROVE k = j
    <3>1. k \in Jobs
      BY <1>4 DEF TypeOK, JobTypeOK
    <3> QED BY <2>1, <1>2, <1>3, <3>1 DEF InFlight, Idle
  <2>2. ASSUME j \in armed' PROVE InPosition(JobTopic[j])' /\ Unread(j)'
    <3>1. InPosition(JobTopic[j])
      BY <1>1, <1>8, <2>2
    <3>2. \A tp \in TPs : \A i \in 1..Len(log[tp]) : log[tp][i].key # j
      BY <1>8, WaiterAssumption DEF IInv, Replies
    <3>3. \A tp \in TPs : \A i \in 1..pos[tp] : i \in 1..Len(log[tp])
      BY <1>1 DEF WaiterTypeOK
    <3>4. Unread(j)
      BY <3>1, <3>2, <3>3 DEF Unread, InPosition, PartitionsOf
    <3> QED BY <1>1, <3>1, <3>4 DEF waiterVars, InPosition, Unread
  <2> QED BY <2>1, <2>2 DEF StaysArmed
<1>10. Returned'
  BY <1>1, <1>2, <1>8 DEF IInv, Returned
<1>11. FirstReplyReturned'
  <2>1. log' = log /\ got' = got /\ \A k \in Jobs : k \in armed' => k \in armed \/ k = j
    BY <1>1
  <2> QED BY <1>8, <2>1 DEF IInv, FirstReplyReturned
<1> QED BY <1>4, <1>5, <1>6, <1>7, <1>9, <1>10, <1>11 DEF IInv

(* trigger() comes back: with an id, or the call is over.                   *)
LEMMA TriggerReturnStep == ASSUME IInv, NEW j \in Jobs, TriggerReturn(j) PROVE IInv'
<1>1. /\ TypeOK /\ WaiterTypeOK /\ pc[j] = "sent"
      /\ UNCHANGED <<log, waiterVars, got, requested, armed>>
  BY DEF IInv, TypeOK, TriggerReturn
<1>2. /\ pc' \in [Jobs -> Stages] /\ outcome' \in [Jobs -> Outcomes]
      /\ \A k \in Jobs : pc'[k] = "done" <=> outcome'[k] # "pending"
      /\ pc'[j] \in {"triggered", "done"} /\ \A k \in Jobs : k # j => pc'[k] = pc[k]
  <2>1. Goto(j, "triggered") \/ Return(j, "none")
    BY DEF TriggerReturn
  <2> QED BY <1>1, <2>1, GotoMoves, ReturnMoves DEF Stages, Idle
<1> QED BY <1>1, <1>2, StillStep

(* The head of wait_for_key: a consumer that is armed for this call stays   *)
(* where it is, because prepare was done for this very topic.               *)
LEMMA BeginWaitStep == ASSUME IInv, NEW j \in Jobs, BeginWait(j) PROVE IInv'
<1>1. /\ TypeOK /\ WaiterTypeOK /\ pc[j] = "triggered" /\ JobTopic[j] \in Topics
      /\ UNCHANGED <<log, got, requested, armed>>
  BY JobAssumption DEF IInv, TypeOK, BeginWait
<1>2. CASE EnterWaitFails /\ Return(j, "none")
  <2>1. /\ pc' \in [Jobs -> Stages] /\ outcome' \in [Jobs -> Outcomes]
        /\ \A k \in Jobs : pc'[k] = "done" <=> outcome'[k] # "pending"
        /\ pc'[j] = "done" /\ \A k \in Jobs : k # j => pc'[k] = pc[k]
    BY <1>1, <1>2, ReturnMoves
  <2> QED BY <1>1, <1>2, <2>1, StillStep DEF EnterWaitFails
<1>3. CASE EnterWait(JobTopic[j]) /\ Goto(j, "waiting")
  <2>1. /\ pc' \in [Jobs -> Stages] /\ outcome' \in [Jobs -> Outcomes]
        /\ \A k \in Jobs : pc'[k] = "done" <=> outcome'[k] # "pending"
        /\ pc'[j] = "waiting" /\ \A k \in Jobs : k # j => pc'[k] = pc[k]
    BY <1>1, <1>3, GotoMoves DEF Stages, Idle
  <2>2. WaiterTypeOK'
    BY <1>1, <1>3, EnterWaitTyped
  <2>3. StaysArmed'
    <3> SUFFICES ASSUME NEW k \in armed, InFlight(k)' PROVE InPosition(JobTopic[k])' /\ Unread(k)'
      BY <1>1 DEF StaysArmed
    <3>1. k \in Jobs /\ InFlight(k)
      BY <1>1, <2>1 DEF InFlight, TypeOK, JobTypeOK
    <3>2. k = j
      BY <1>1, <3>1, OneArmed DEF Idle
    <3>3. InPosition(JobTopic[j]) /\ Unread(j)
      BY <3>1, <3>2 DEF IInv, StaysArmed
    <3>4. UNCHANGED <<log, assigned, pos, reset, prepared>>
      BY <1>1, <1>3, <3>3 DEF EnterWait, InPosition
    <3> QED BY <3>2, <3>3, <3>4 DEF InPosition, Unread
  <2> QED BY <1>1, <2>1, <2>2, <2>3, QuietStep DEF Idle
<1>4. CASE EnterWaitRaises(JobTopic[j]) /\ Return(j, "raised")
  <2>1. /\ pc' \in [Jobs -> Stages] /\ outcome' \in [Jobs -> Outcomes]
        /\ \A k \in Jobs : pc'[k] = "done" <=> outcome'[k] # "pending"
        /\ pc'[j] = "done" /\ \A k \in Jobs : k # j => pc'[k] = pc[k]
    BY <1>1, <1>4, ReturnMoves
  <2>2. WaiterTypeOK'
    BY <1>1, <1>4, RaisesTyped DEF EnterWaitRaises
  <2>3. StaysArmed'
    <3> SUFFICES ASSUME NEW k \in armed, InFlight(k)' PROVE FALSE
      BY <1>1 DEF StaysArmed
    <3>1. k \in Jobs /\ InFlight(k) /\ k # j
      BY <1>1, <2>1 DEF InFlight, TypeOK, JobTypeOK
    <3> QED BY <1>1, <3>1, OneArmed DEF Idle
  <2> QED BY <1>1, <2>1, <2>2, <2>3, QuietStep DEF Idle
<1> QED BY <1>2, <1>3, <1>4 DEF BeginWait

(* A call that ends where it stands.                                        *)
LEMMA GivesUp ==
  ASSUME IInv, NEW j \in Jobs, pc[j] = "waiting", NEW what \in {"none", "raised"}, Return(j, what),
         UNCHANGED <<log, waiterVars, got, requested, armed>>
  PROVE  IInv'
<1>1. TypeOK /\ WaiterTypeOK
  BY DEF IInv, TypeOK
<1>2. /\ pc' \in [Jobs -> Stages] /\ outcome' \in [Jobs -> Outcomes]
      /\ \A k \in Jobs : pc'[k] = "done" <=> outcome'[k] # "pending"
      /\ pc'[j] = "done" /\ \A k \in Jobs : k # j => pc'[k] = pc[k]
  BY <1>1, ReturnMoves
<1> QED BY <1>1, <1>2, StillStep

(* A batch without a reply to this call: every reply to it is still ahead.  *)
LEMMA PollNothingStep == ASSUME IInv, NEW j \in Jobs, PollNothing(j) PROVE IInv'
<1>1. /\ TypeOK /\ WaiterTypeOK /\ JobTypeOK /\ pc[j] = "waiting" /\ UNCHANGED jobVars
      /\ \A k \in Jobs : pc[k] = "done" <=> outcome[k] # "pending"
  BY DEF IInv, TypeOK, PollNothing
<1>2. PICK take \in Takes : PollWithoutMatch(take, {j})
  BY DEF PollNothing
<1>3. /\ Matches(take, {j}) = {} /\ Advance(take)
      /\ UNCHANGED <<log, consumer, assigned, reset, prepared>>
  BY <1>2 DEF PollWithoutMatch
<1>4. WaiterTypeOK' /\ \A tp \in TPs : pos'[tp] = pos[tp] + take[tp] /\ take[tp] \in Nat
  BY <1>1, <1>3, PollTyped
<1>5. \A tp \in TPs : pos[tp] \in Nat
  BY <1>1 DEF WaiterTypeOK
<1>6. StaysArmed'
  <2> SUFFICES ASSUME NEW k \in armed, InFlight(k) PROVE InPosition(JobTopic[k])' /\ Unread(k)'
    BY <1>1, <1>3 DEF StaysArmed, jobVars, InFlight
  <2>1. k = j
    BY <1>1, OneArmed DEF Idle
  <2>2. InPosition(JobTopic[j]) /\ Unread(j)
    BY <2>1 DEF IInv, StaysArmed
  <2>3. ASSUME NEW tp \in PartitionsOf(JobTopic[j]), NEW i \in 1..pos'[tp] PROVE log[tp][i].key # j
    <3>1. tp \in TPs
      BY PartitionsTyped
    <3>2. CASE i \in 1..pos[tp]
      BY <2>2, <3>2 DEF Unread
    <3>3. CASE i \notin 1..pos[tp]
      <4>1. i \in pos[tp] + 1 .. pos[tp] + take[tp]
        BY <1>4, <1>5, <3>1, <3>3
      <4> DEFINE m == <<tp, i>>
      <4>2. m \in {tp} \X (pos[tp] + 1 .. pos[tp] + take[tp])
        BY <4>1
      <4>3. m[1] = tp /\ m[2] = i
        OBVIOUS
      <4>4. log[m[1]][m[2]].key \notin {j}
        BY <1>3, <3>1, <4>2 DEF Matches
      <4> QED BY <4>3, <4>4
    <3> QED BY <3>2, <3>3
  <2>4. Unread(j)'
    BY <1>3, <2>2, <2>3 DEF Unread, PartitionsOf
  <2> QED BY <1>3, <2>1, <2>2, <2>4 DEF InPosition
<1>7. TypeOK'
  BY <1>1, <1>4 DEF TypeOK, JobTypeOK, jobVars
<1>8. OneCall' /\ Fresh'
  BY <1>1 DEF IInv, OneCall, Fresh, jobVars
<1>9. Replies' /\ Returned' /\ FirstReplyReturned'
  BY <1>1, <1>3 DEF IInv, Replies, Returned, FirstReplyReturned, jobVars
<1> QED BY <1>6, <1>7, <1>8, <1>9 DEF IInv

(* The batch has a reply: the first of its partition is returned, and when  *)
(* the consumer was armed none came before it.                              *)
LEMMA PollReplyStep == ASSUME IInv, NEW j \in Jobs, PollReply(j) PROVE IInv'
<1>1. /\ TypeOK /\ WaiterTypeOK /\ JobTypeOK /\ pc[j] = "waiting" /\ UNCHANGED <<requested, armed>>
      /\ \A k \in Jobs : pc[k] = "done" <=> outcome[k] # "pending"
  BY DEF IInv, TypeOK, PollReply
<1>21. PICK take \in Takes : \E m \in FirstMatches(take, {j}), mode \in Contracts :
        /\ PollWithMatch(take, {j}, m)
        /\ got' = [got EXCEPT ![j] = m]
        /\ Return(j, Decoded(log[m[1]][m[2]].body, mode))
  BY DEF PollReply
<1>2. PICK m \in FirstMatches(take, {j}), mode \in Contracts :
        /\ PollWithMatch(take, {j}, m)
        /\ got' = [got EXCEPT ![j] = m]
        /\ Return(j, Decoded(log[m[1]][m[2]].body, mode))
  BY <1>21
<1>3. Advance(take) /\ UNCHANGED <<log, consumer, assigned, reset, prepared>>
  BY <1>2 DEF PollWithMatch
<1>4. WaiterTypeOK' /\ \A tp \in TPs : pos'[tp] = pos[tp] + take[tp] /\ take[tp] \in Nat
  BY <1>1, <1>3, PollTyped
<1>5. \A tp \in TPs : pos[tp] \in Nat /\ Len(log[tp]) \in Nat /\ pos'[tp] <= Len(log[tp])
  BY <1>1, <1>3, <1>4 DEF WaiterTypeOK
<1>6. m \in Matches(take, {j}) /\ \A n \in Matches(take, {j}) : n[1] = m[1] => m[2] <= n[2]
  BY <1>2 DEF FirstMatches
<1>7. PICK tp \in TPs : m \in {tp} \X (pos[tp] + 1 .. pos[tp] + take[tp])
  BY <1>6 DEF Matches
<1>8. m[1] = tp /\ m[2] \in pos[tp] + 1 .. pos[tp] + take[tp] /\ m = <<m[1], m[2]>>
  BY <1>7
<1>9. m[2] \in 1..Len(log[tp]) /\ m[2] \in Nat
  BY <1>4, <1>5, <1>8
<1>10. log[tp][m[2]].key = j
  BY <1>6, <1>8 DEF Matches
<1>11. tp \in PartitionsOf(JobTopic[j])
  <2>1. j # None
    BY WaiterAssumption
  <2> QED BY <1>9, <1>10, <2>1 DEF IInv, Replies, PartitionsOf
<1>12. Decoded(log[m[1]][m[2]].body, mode) \in {"result", "none", "raised"}
  BY DEF Decoded
<1>13. /\ pc' \in [Jobs -> Stages] /\ outcome' \in [Jobs -> Outcomes]
       /\ \A k \in Jobs : pc'[k] = "done" <=> outcome'[k] # "pending"
       /\ pc'[j] = "done" /\ \A k \in Jobs : k # j => pc'[k] = pc[k]
  BY <1>1, <1>2, <1>12, ReturnMoves
<1>14. /\ got' \in [Jobs -> (TPs \X Nat) \cup {None}] /\ got'[j] = m
       /\ \A k \in Jobs : k # j => got'[k] = got[k]
  <2>1. m \in TPs \X Nat
    BY <1>8, <1>9
  <2> QED BY <1>1, <1>2, <2>1 DEF JobTypeOK
<1>15. TypeOK'
  BY <1>1, <1>4, <1>13, <1>14 DEF TypeOK, JobTypeOK
<1>16. OneCall'
  <2>1. \A k \in Jobs : k # j => pc[k] \in Idle
    BY <1>1 DEF IInv, OneCall, Idle
  <2> QED BY <1>13, <2>1 DEF OneCall, Idle
<1>17. Replies' /\ Fresh'
  <2>1. log' = log /\ requested' = requested /\ armed' = armed
    BY <1>1, <1>3
  <2>2. \A k \in Jobs : pc'[k] \in {"new", "prepared"} => pc[k] \in {"new", "prepared"}
    BY <1>13
  <2> QED BY <2>1, <2>2 DEF IInv, Replies, Fresh
<1>18. StaysArmed'
  <2> SUFFICES ASSUME NEW k \in armed, InFlight(k)' PROVE FALSE
    BY <1>1 DEF StaysArmed
  <2>1. k \in Jobs /\ InFlight(k) /\ k # j
    BY <1>1, <1>13 DEF InFlight, JobTypeOK
  <2> QED BY <1>1, <2>1, OneArmed DEF Idle
<1>19. Returned'
  <2>1. ASSUME NEW k \in Jobs, got'[k] # None
        PROVE  pc'[k] = "done" /\ got'[k][1] \in TPs /\ got'[k][2] \in 1..Len(log[got'[k][1]])
    <3>1. CASE k = j
      BY <1>8, <1>9, <1>13, <1>14, <3>1
    <3>2. CASE k # j
      BY <1>13, <1>14, <2>1, <3>2 DEF IInv, Returned
    <3> QED BY <3>1, <3>2
  <2> QED BY <1>3, <2>1 DEF Returned
<1>20. FirstReplyReturned'
  <2>1. ASSUME NEW k \in Jobs, got'[k] # None
        PROVE  /\ got'[k][1] \in PartitionsOf(JobTopic[k])
               /\ log[got'[k][1]][got'[k][2]].key = k
               /\ k \in armed => \A i \in 1..(got'[k][2] - 1) : log[got'[k][1]][i].key # k
    <3>1. CASE k # j
      BY <1>14, <2>1, <3>1 DEF IInv, FirstReplyReturned
    <3>2. CASE k = j
      <4>1. ASSUME j \in armed, NEW i \in 1..(m[2] - 1) PROVE log[tp][i].key # j
        <5>1. Unread(j)
          BY <1>1, <4>1 DEF IInv, StaysArmed, InFlight
        <5>2. CASE i <= pos[tp]
          BY <1>5, <1>9, <1>11, <5>1, <5>2 DEF Unread
        <5>3. CASE ~(i <= pos[tp])
          <6> DEFINE n == <<tp, i>>
          <6>1. n[1] = tp /\ n[2] = i
            OBVIOUS
          <6>2. i \in pos[tp] + 1 .. pos[tp] + take[tp] /\ ~(m[2] <= i)
            BY <1>4, <1>5, <1>8, <1>9, <5>3
          <6>3. n \in {tp} \X (pos[tp] + 1 .. pos[tp] + take[tp])
            BY <6>2
          <6>4. n \notin Matches(take, {j})
            BY <1>6, <1>8, <6>1, <6>2
          <6> HIDE DEF n
          <6>5. log[n[1]][n[2]].key \notin {j}
            BY <6>3, <6>4 DEF Matches
          <6> QED BY <6>1, <6>5
        <5> QED BY <5>2, <5>3
      <4> QED BY <1>8, <1>10, <1>11, <1>14, <3>2, <4>1
    <3> QED BY <3>1, <3>2
  <2> QED BY <1>1, <1>3, <2>1 DEF FirstReplyReturned, PartitionsOf
<1> QED BY <1>15, <1>16, <1>17, <1>18, <1>19, <1>20 DEF IInv

-------------------------------------------------------------------------------
(* A record is appended: what was read stays read, what was not is ahead.   *)
LEMMA PublishStep ==
  ASSUME IInv, NEW tp \in TPs, NEW key \in Jobs \cup {None}, NEW body \in Bodies,
         key # None => key \in requested /\ TopicOf[tp] = JobTopic[key],
         Append1(tp, key, body), UNCHANGED <<waiterVars, jobVars>>
  PROVE  IInv'
<1>1. TypeOK /\ WaiterTypeOK /\ JobTypeOK
  BY DEF IInv, TypeOK
<1>2. /\ log' \in [TPs -> Seq(Record)]
      /\ \A q \in TPs : /\ Len(log[q]) \in Nat /\ Len(log'[q]) \in Nat
                        /\ Len(log[q]) <= Len(log'[q])
                        /\ \A i \in 1..Len(log[q]) : log'[q][i] = log[q][i]
                        /\ \A i \in 1..Len(log'[q]) :
                             i \in 1..Len(log[q]) \/ (q = tp /\ log'[q][i].key = key)
  BY <1>1, AppendKeeps
<1>3. UNCHANGED <<consumer, assigned, pos, reset, prepared, pc, outcome, got, requested, armed>>
  BY DEF waiterVars, jobVars
<1>4. WaiterTypeOK'
  <2>1. \A q \in TPs : pos[q] \in Nat /\ pos[q] <= Len(log'[q])
    BY <1>1, <1>2 DEF WaiterTypeOK
  <2> QED BY <1>1, <1>2, <1>3, <2>1 DEF WaiterTypeOK
<1>5. TypeOK'
  BY <1>1, <1>3, <1>4 DEF TypeOK, JobTypeOK
<1>6. OneCall' /\ Fresh'
  BY <1>3 DEF IInv, OneCall, Fresh
<1>7. Replies'
  <2>1. ASSUME NEW q \in TPs, NEW i \in 1..Len(log'[q]), log'[q][i].key # None
        PROVE  log'[q][i].key \in requested /\ TopicOf[q] = JobTopic[log'[q][i].key]
    <3>1. CASE i \in 1..Len(log[q])
      BY <1>2, <2>1, <3>1 DEF IInv, Replies
    <3>2. CASE q = tp /\ log'[q][i].key = key
      BY <2>1, <3>2
    <3> QED BY <1>2, <3>1, <3>2
  <2> QED BY <1>3, <2>1 DEF Replies
<1>8. \A q \in TPs : \A i \in 1..pos[q] : i \in 1..Len(log[q]) /\ log'[q][i] = log[q][i]
  BY <1>1, <1>2 DEF WaiterTypeOK
<1>9. StaysArmed'
  BY <1>3, <1>8, PartitionsTyped DEF IInv, StaysArmed, InPosition, Unread, InFlight, PartitionsOf
<1>10. ASSUME NEW k \in Jobs, got[k] # None
       PROVE  /\ got[k][1] \in TPs /\ got[k][2] \in Nat /\ got[k][2] \in 1..Len(log[got[k][1]])
              /\ got[k][2] \in 1..Len(log'[got[k][1]])
              /\ \A i \in 1..got[k][2] : log'[got[k][1]][i] = log[got[k][1]][i]
  <2>1. got[k][1] \in TPs /\ got[k][2] \in 1..Len(log[got[k][1]])
    BY <1>10 DEF IInv, Returned
  <2> DEFINE q == got[k][1]  n == got[k][2]
  <2>2. q \in TPs /\ n \in 1..Len(log[q])
    BY <2>1
  <2> HIDE DEF q, n
  <2>3. /\ Len(log[q]) \in Nat /\ Len(log'[q]) \in Nat /\ Len(log[q]) <= Len(log'[q])
        /\ \A i \in 1..Len(log[q]) : log'[q][i] = log[q][i]
    BY <1>2, <2>2
  <2>4. n \in Nat /\ n \in 1..Len(log'[q]) /\ \A i \in 1..n : log'[q][i] = log[q][i]
    BY <2>2, <2>3
  <2> QED BY <2>2, <2>4 DEF q, n
<1>11. Returned'
  BY <1>3, <1>10 DEF IInv, Returned
<1>12. FirstReplyReturned'
  <2>1. ASSUME NEW k \in Jobs, got[k] # None
        PROVE  /\ got[k][1] \in PartitionsOf(JobTopic[k])
               /\ log'[got[k][1]][got[k][2]].key = k
               /\ k \in armed => \A i \in 1..(got[k][2] - 1) : log'[got[k][1]][i].key # k
    <3> DEFINE q == got[k][1]  n == got[k][2]
    <3>1. /\ q \in PartitionsOf(JobTopic[k]) /\ log[q][n].key = k
          /\ k \in armed => \A i \in 1..(n - 1) : log[q][i].key # k
      BY <2>1 DEF IInv, FirstReplyReturned
    <3>2. n \in Nat /\ n \in 1..Len(log[q]) /\ q \in TPs /\ Len(log[q]) \in Nat
          /\ \A i \in 1..n : log'[q][i] = log[q][i]
      BY <1>2, <1>10, <2>1
    <3> HIDE DEF q, n
    <3>3. n \in 1..n /\ \A i \in 1..(n - 1) : i \in 1..n
      BY <3>2
    <3>4. /\ q \in PartitionsOf(JobTopic[k]) /\ log'[q][n].key = k
          /\ k \in armed => \A i \in 1..(n - 1) : log'[q][i].key # k
      BY <3>1, <3>2, <3>3
    <3> QED BY <3>4 DEF q, n
  <2> QED BY <1>3, <2>1 DEF FirstReplyReturned, PartitionsOf
<1> QED BY <1>5, <1>6, <1>7, <1>9, <1>11, <1>12 DEF IInv

LEMMA PublishReplyStep == ASSUME IInv, NEW j \in Jobs, PublishReply(j) PROVE IInv'
<1>1. PICK tp \in PartitionsOf(JobTopic[j]), body \in Bodies : Append1(tp, j, body)
  BY DEF PublishReply
<1>2. tp \in TPs /\ TopicOf[tp] = JobTopic[j] /\ j \in requested
  BY DEF PartitionsOf, PublishReply
<1> QED BY <1>1, <1>2, PublishStep DEF PublishReply

LEMMA PublishOtherStep == ASSUME IInv, PublishOther PROVE IInv'
<1> DEFINE body == CHOOSE body \in Bodies : TRUE
<1>1. body \in Bodies
  BY RunnerAssumption
<1>2. PICK tp \in TPs : Append1(tp, None, body)
  BY DEF PublishOther
<1> HIDE DEF body
<1> QED BY <1>1, <1>2, PublishStep DEF PublishOther

(* The library resolves a seek: not while a call is armed, nothing is       *)
(* pending then.                                                            *)
LEMMA ResolveStep == ASSUME IInv, Resolve PROVE IInv'
<1>1. /\ TypeOK /\ WaiterTypeOK /\ JobTypeOK
      /\ \A k \in Jobs : pc[k] = "done" <=> outcome[k] # "pending"
      /\ reset # {} /\ pos' = AtEnd(reset) /\ reset' = {}
      /\ UNCHANGED <<log, consumer, assigned, prepared, pc, outcome, got, requested, armed>>
  BY DEF IInv, TypeOK, Resolve, ResolveSeek, jobVars
<1>2. WaiterTypeOK'
  <2>1. \A tp \in TPs : Len(log[tp]) \in Nat
    BY <1>1 DEF WaiterTypeOK
  <2>2. pos' \in [TPs -> Nat] /\ \A tp \in TPs : pos'[tp] <= Len(log[tp])
    BY <1>1, <2>1 DEF AtEnd, WaiterTypeOK
  <2> QED BY <1>1, <2>2, WaiterMoves DEF WaiterTypeOK
<1>3. TypeOK'
  BY <1>1, <1>2 DEF TypeOK, JobTypeOK
<1>4. StaysArmed'
  BY <1>1 DEF IInv, StaysArmed, InPosition, InFlight
<1> QED BY <1>1, <1>3, <1>4 DEF IInv, OneCall, Replies, Fresh, Returned, FirstReplyReturned

LEMMA CloseStep == ASSUME IInv, CloseWaiter PROVE IInv'
<1>1. /\ TypeOK /\ WaiterTypeOK /\ JobTypeOK
      /\ \A k \in Jobs : pc[k] = "done" <=> outcome[k] # "pending"
      /\ \A k \in Jobs : pc[k] \in Idle
      /\ consumer' = FALSE /\ assigned' = {} /\ reset' = {} /\ prepared' = None
      /\ UNCHANGED <<log, pos, pc, outcome, got, requested, armed>>
  BY DEF IInv, TypeOK, CloseWaiter, Close, jobVars
<1>2. WaiterTypeOK'
  BY <1>1 DEF WaiterTypeOK
<1>3. TypeOK'
  BY <1>1, <1>2 DEF TypeOK, JobTypeOK
<1>4. StaysArmed'
  BY <1>1 DEF StaysArmed, InFlight, Idle, JobTypeOK
<1> QED BY <1>1, <1>3, <1>4 DEF IInv, OneCall, Replies, Fresh, Returned, FirstReplyReturned

-------------------------------------------------------------------------------
LEMMA StepIInv == IInv /\ [Next]_vars => IInv'
<1> SUFFICES ASSUME IInv, [Next]_vars PROVE IInv'
  OBVIOUS
<1>1. ASSUME NEW j \in Jobs, Run(j) PROVE IInv'
  <2>1. CASE Start(j)
    BY <2>1, StartStep
  <2>2. CASE TriggerSend(j)
    BY <2>2, TriggerSendStep
  <2>3. CASE TriggerReturn(j)
    BY <2>3, TriggerReturnStep
  <2>4. CASE BeginWait(j)
    BY <2>4, BeginWaitStep
  <2>5. CASE PollNothing(j)
    BY <2>5, PollNothingStep
  <2>6. CASE PollReply(j)
    BY <2>6, PollReplyStep
  <2>7. CASE TimeUp(j)
    BY <2>7, GivesUp DEF TimeUp
  <2>8. CASE PollRaises(j)
    BY <2>8, GivesUp DEF PollRaises
  <2> QED BY <1>1, <2>1, <2>2, <2>3, <2>4, <2>5, <2>6, <2>7, <2>8 DEF Run
<1>2. ASSUME NEW j \in Jobs, PublishReply(j) PROVE IInv'
  BY <1>2, PublishReplyStep
<1>3. CASE PublishOther
  BY <1>3, PublishOtherStep
<1>4. CASE Resolve
  BY <1>4, ResolveStep
<1>5. CASE CloseWaiter
  BY <1>5, CloseStep
<1>6. CASE UNCHANGED vars
  <2>1. /\ UNCHANGED <<log, consumer, assigned, pos, reset, prepared>>
        /\ UNCHANGED <<pc, outcome, got, requested, armed>>
    BY <1>6 DEF vars, waiterVars, jobVars
  <2>2. TypeOK'
    BY <2>1 DEF IInv, TypeOK, WaiterTypeOK, JobTypeOK
  <2>3. StaysArmed'
    BY <2>1 DEF IInv, StaysArmed, InPosition, Unread, InFlight
  <2> QED BY <2>1, <2>2, <2>3 DEF IInv, OneCall, Replies, Fresh, Returned, FirstReplyReturned
<1> QED BY <1>1, <1>2, <1>3, <1>4, <1>5, <1>6 DEF Next

LEMMA IInvHolds == Spec => []IInv
BY InitIInv, StepIInv, PTL DEF Spec

(* The types of all variables, and that a call is over exactly when it has  *)
(* an outcome (kafka_async_job.py run_safe), for every set of jobs.         *)
THEOREM JobTypes == Spec => []TypeOK
<1>1. IInv => TypeOK
  BY DEF IInv
<1> QED BY <1>1, IInvHolds, PTL

(* When the consumer was in position before the request was sent, every     *)
(* reply to it is still ahead of the consumer until the call ends           *)
(* (kafka_async_job.py run_safe, kafka_python.py wait_for_key), whatever    *)
(* the numbers of jobs, topics, partitions and records.                     *)
THEOREM ArmedRepliesUnread == Spec => []ArmedReplyUnread
<1>1. IInv => ArmedReplyUnread
  BY DEF IInv, StaysArmed, InPosition, ArmedReplyUnread
<1> QED BY <1>1, IInvHolds, PTL

(* What wait_for_key returns answers this very request, comes from the      *)
(* job's topic and, when the consumer was in position, is the first reply   *)
(* of its partition.                                                        *)
THEOREM FirstReplies == Spec => []FirstReplyReturned
<1>1. IInv => FirstReplyReturned
  BY DEF IInv
<1> QED BY <1>1, IInvHolds, PTL
-------------------------------------------------------------------------------
(* Overlapping requests. The log has replies to requests that were sent, ...  *)
SentFirst ==
  \A tp \in TPs : \A i \in 1..Len(log[tp]) :
    log[tp][i].key # None => log[tp][i].key \in Jobs /\ stage[log[tp][i].key] # "new"

(* ... a request that was closed has the record that closed it, ...          *)
Closed ==
  \A j \in Jobs : got[j] # None =>
    got[j][1] \in TPs /\ got[j][2] \in 1..Len(log[got[j][1]])

BatchInv == BatchTypeOK /\ SentFirst /\ Closed /\ OneReplyEach

(* ... and once a request is armed nothing moves the consumer but polls for  *)
(* all open requests.                                                        *)
BatchArmed ==
  /\ \A j \in armed : stage[j] # "new" /\ InPosition(Topic)
  /\ keys # {} => keys = Open

LEMMA BatchStarts == BatchInit => BatchInv
<1> SUFFICES ASSUME BatchInit PROVE BatchInv
  OBVIOUS
<1>1. WaiterTypeOK /\ \A tp \in TPs : log[tp] = << >>
  BY RunnerStarts DEF BatchInit
<1>2. BatchTypeOK /\ Closed /\ OneReplyEach
  BY <1>1 DEF BatchInit, RunnerInit, BatchTypeOK, Open, Closed, OneReplyEach
<1>3. SentFirst
  <2>1. \A tp \in TPs : Len(log[tp]) = 0
    BY <1>1
  <2> QED BY <2>1 DEF SentFirst
<1> QED BY <1>2, <1>3 DEF BatchInv

(* What the steps have to show that neither write to the log nor send or    *)
(* close a request.                                                         *)
LEMMA QuietBatch ==
  ASSUME BatchInv, UNCHANGED <<log, stage, outcome, got, armed, dropped>>, WaiterTypeOK', keys' \subseteq Open
  PROVE  BatchInv'
BY DEF BatchInv, BatchTypeOK, Open, SentFirst, Closed, OneReplyEach

LEMMA PrepareBatchStep == ASSUME BatchInv, PrepareBatch PROVE BatchInv'
<1>1. WaiterTypeOK'
  BY BatchAssumption, PrepareTyped DEF BatchInv, BatchTypeOK, PrepareBatch
<1> QED BY <1>1, QuietBatch DEF PrepareBatch, batchVars, BatchInv, BatchTypeOK

LEMMA SendStep == ASSUME BatchInv, NEW j \in Jobs, Send(j) PROVE BatchInv'
<1>1. /\ BatchTypeOK /\ keys = {} /\ stage[j] = "new"
      /\ stage' = [stage EXCEPT ![j] = "open"] /\ armed' \subseteq Jobs
      /\ UNCHANGED <<log, consumer, assigned, pos, reset, prepared, keys, outcome, got, dropped>>
  BY DEF BatchInv, BatchTypeOK, Send, waiterVars
<1>2. stage' \in [Jobs -> {"new", "open", "closed"}] /\ stage'[j] = "open"
      /\ \A k \in Jobs : k # j => stage'[k] = stage[k]
  BY <1>1 DEF BatchTypeOK
<1>3. WaiterTypeOK'
  BY <1>1 DEF BatchTypeOK, WaiterTypeOK
<1>4. BatchTypeOK'
  BY <1>1, <1>2, <1>3 DEF BatchTypeOK
<1> QED BY <1>1, <1>2, <1>4 DEF BatchInv, SentFirst, Closed, OneReplyEach

LEMMA PublishBatchStep == ASSUME BatchInv, NEW j \in Jobs, Publish(j) PROVE BatchInv'
<1>1. PICK tp \in PartitionsOf(Topic), body \in Bodies : Append1(tp, j, body)
  BY DEF Publish
<1>2. /\ BatchTypeOK /\ WaiterTypeOK /\ stage[j] # "new" /\ tp \in TPs
      /\ UNCHANGED <<consumer, assigned, pos, reset, prepared, stage, keys, outcome, got, armed, dropped>>
  BY PartitionsTyped DEF BatchInv, BatchTypeOK, Publish, waiterVars, batchVars
<1>3. /\ log' \in [TPs -> Seq(Record)]
      /\ \A q \in TPs : /\ Len(log[q]) \in Nat /\ Len(log'[q]) \in Nat
                        /\ Len(log[q]) <= Len(log'[q])
                        /\ \A i \in 1..Len(log[q]) : log'[q][i] = log[q][i]
                        /\ \A i \in 1..Len(log'[q]) :
                             i \in 1..Len(log[q]) \/ (q = tp /\ log'[q][i].key = j)
  BY <1>1, <1>2, AppendKeeps
<1>4. WaiterTypeOK'
  <2>1. \A q \in TPs : pos[q] \in Nat /\ pos[q] <= Len(log'[q])
    BY <1>2, <1>3 DEF WaiterTypeOK
  <2> QED BY <1>2, <1>3, <2>1 DEF WaiterTypeOK
<1>5. BatchTypeOK'
  BY <1>2, <1>4 DEF BatchTypeOK, Open
<1>6. SentFirst'
  <2>1. ASSUME NEW q \in TPs, NEW i \in 1..Len(log'[q]), log'[q][i].key # None
        PROVE  log'[q][i].key \in Jobs /\ stage[log'[q][i].key] # "new"
    <3>1. CASE i \in 1..Len(log[q])
      BY <1>3, <2>1, <3>1 DEF BatchInv, SentFirst
    <3>2. CASE q = tp /\ log'[q][i].key = j
      BY <1>2, <3>2
    <3> QED BY <1>3, <3>1, <3>2
  <2> QED BY <1>2, <2>1 DEF SentFirst
<1>7. ASSUME NEW k \in Jobs, got[k] # None
      PROVE  /\ got[k][1] \in TPs /\ got[k][2] \in 1..Len(log'[got[k][1]])
             /\ log'[got[k][1]][got[k][2]].key = k
  <2> DEFINE q == got[k][1]  n == got[k][2]
  <2>1. q \in TPs /\ n \in 1..Len(log[q]) /\ log[q][n].key = k
    BY <1>7 DEF BatchInv, Closed, OneReplyEach
  <2> HIDE DEF q, n
  <2>2. n \in 1..Len(log'[q]) /\ log'[q][n] = log[q][n]
    BY <1>3, <2>1
  <2> QED BY <2>1, <2>2 DEF q, n
<1>8. Closed'
  BY <1>2, <1>7 DEF Closed
<1>9. OneReplyEach'
  BY <1>2, <1>7 DEF BatchInv, OneReplyEach
<1> QED BY <1>5, <1>6, <1>8, <1>9 DEF BatchInv

LEMMA BeginAnyStep == ASSUME BatchInv, BeginAny PROVE BatchInv'
<1>1. WaiterTypeOK /\ UNCHANGED <<log, stage, outcome, got, armed, dropped>>
  BY DEF BatchInv, BatchTypeOK, BeginAny
<1>2. CASE EnterWait(Topic) /\ keys' \in (IF HasWaitAny THEN {Open} ELSE {{j} : j \in Open})
  <2>1. WaiterTypeOK'
    BY <1>1, <1>2, BatchAssumption, EnterWaitTyped
  <2>2. keys' \subseteq Open
    BY <1>2
  <2> QED BY <1>1, <2>1, <2>2, QuietBatch
<1>3. CASE (EnterWaitFails \/ EnterWaitRaises(Topic)) /\ keys' = {}
  <2>1. ASSUME EnterWaitFails PROVE WaiterTypeOK'
    BY <1>1, <2>1 DEF EnterWaitFails, waiterVars, WaiterTypeOK
  <2>2. ASSUME EnterWaitRaises(Topic) PROVE WaiterTypeOK'
    BY <1>1, <2>2, BatchAssumption, RaisesTyped DEF EnterWaitRaises
  <2> QED BY <1>1, <1>3, <2>1, <2>2, QuietBatch
<1> QED BY <1>2, <1>3 DEF BeginAny

LEMMA AnyNothingStep == ASSUME BatchInv, AnyNothing PROVE BatchInv'
<1>1. PICK take \in Takes : PollWithoutMatch(take, keys)
  BY DEF AnyNothing
<1>2. WaiterTypeOK /\ UNCHANGED <<stage, keys, outcome, got, armed, dropped>>
  BY DEF BatchInv, BatchTypeOK, AnyNothing, batchVars
<1>3. WaiterTypeOK' /\ log' = log
  BY <1>1, <1>2, PollTyped DEF PollWithoutMatch
<1> QED BY <1>2, <1>3, QuietBatch DEF BatchInv, BatchTypeOK

(* A match is a record of the log, and the reply to a request the call      *)
(* waits for.                                                               *)
LEMMA MatchIsReply ==
  ASSUME WaiterTypeOK, NEW take \in Takes, NEW ks \in SUBSET Jobs, NEW m \in Matches(take, ks)
  PROVE  /\ m \in TPs \X Nat /\ m[1] \in TPs /\ m[2] \in 1..Len(log[m[1]])
         /\ m[2] \in pos[m[1]] + 1 .. pos[m[1]] + take[m[1]]
         /\ log[m[1]][m[2]].key \in ks
<1>1. PICK tp \in TPs : m \in {tp} \X (pos[tp] + 1 .. pos[tp] + take[tp])
  BY DEF Matches
<1>2. m[1] = tp /\ m[2] \in pos[tp] + 1 .. pos[tp] + take[tp] /\ m = <<m[1], m[2]>>
  BY <1>1
<1>3. pos[tp] \in Nat /\ Len(log[tp]) \in Nat /\ pos[tp] <= Len(log[tp])
  BY DEF WaiterTypeOK
<1>4. take[tp] \in Nat /\ (take[tp] # 0 => pos[tp] + take[tp] <= Len(log[tp]))
  BY WaiterAssumption DEF Takes
<1>5. m[2] \in Nat /\ m[2] \in 1..Len(log[tp])
  BY <1>2, <1>3, <1>4
<1> QED BY <1>2, <1>5 DEF Matches

LEMMA AnyReplyStep == ASSUME BatchInv, AnyReply PROVE BatchInv'
<1>1. PICK take \in Takes : \E m \in FirstMatches(take, keys), mode \in Contracts :
        PollWithMatch(take, keys, m) /\ Answer(log[m[1]][m[2]].key, m, mode) /\ Drops(take, m)
  BY DEF AnyReply
<1>2. PICK m \in FirstMatches(take, keys), mode \in Contracts :
        PollWithMatch(take, keys, m) /\ Answer(log[m[1]][m[2]].key, m, mode) /\ Drops(take, m)
  BY <1>1
<1>3. BatchTypeOK /\ WaiterTypeOK /\ keys' = {} /\ armed' = armed /\ keys \subseteq Open
  BY DEF BatchInv, BatchTypeOK, AnyReply
<1>4. WaiterTypeOK' /\ log' = log
  BY <1>2, <1>3, PollTyped DEF PollWithMatch
<1> DEFINE j == log[m[1]][m[2]].key  what == AnyDecoded(log[m[1]][m[2]].body, mode)
<1>5. m \in TPs \X Nat /\ m[1] \in TPs /\ m[2] \in 1..Len(log[m[1]]) /\ j \in keys
  BY <1>2, <1>3, MatchIsReply DEF FirstMatches, Open
<1>6. j \in Jobs /\ stage[j] = "open" /\ m # None /\ what \in {"result", "raised"}
  BY <1>3, <1>5, WaiterAssumption DEF Open, AnyDecoded
<1>7. /\ got' = [got EXCEPT ![j] = m] /\ stage' = [stage EXCEPT ![j] = "closed"]
      /\ outcome' = [outcome EXCEPT ![j] = what]
  BY <1>2 DEF Answer
<1>8. log[m[1]][m[2]].key = j
  OBVIOUS
<1> HIDE DEF j, what
<1>9. /\ stage' \in [Jobs -> {"new", "open", "closed"}] /\ stage'[j] = "closed"
      /\ outcome' \in [Jobs -> {"pending", "result", "raised"}] /\ outcome'[j] = what
      /\ got' \in [Jobs -> (TPs \X Nat) \cup {None}] /\ got'[j] = m
      /\ \A k \in Jobs : k # j => stage'[k] = stage[k] /\ outcome'[k] = outcome[k] /\ got'[k] = got[k]
  BY <1>3, <1>5, <1>6, <1>7 DEF BatchTypeOK
<1>10. BatchTypeOK'
  <2>1. dropped' \subseteq TPs \X Nat
    BY <1>2, <1>3, MatchIsReply DEF Drops, BatchTypeOK, Open
  <2> QED BY <1>3, <1>4, <1>6, <1>9, <2>1 DEF BatchTypeOK
<1>11. SentFirst'
  <2>1. \A k \in Jobs : stage[k] # "new" => stage'[k] # "new"
    BY <1>9
  <2> QED BY <1>4, <2>1 DEF BatchInv, SentFirst
<1>12. ASSUME NEW k \in Jobs, got'[k] # None
       PROVE  /\ got'[k][1] \in TPs /\ got'[k][2] \in 1..Len(log[got'[k][1]])
              /\ log[got'[k][1]][got'[k][2]].key = k
  <2>1. CASE k = j
    BY <1>5, <1>8, <1>9, <2>1
  <2>2. CASE k # j
    BY <1>9, <1>12, <2>2 DEF BatchInv, Closed, OneReplyEach
  <2> QED BY <2>1, <2>2
<1>13. Closed'
  BY <1>4, <1>12 DEF Closed
<1>14. OneReplyEach'
  <2>1. \A k \in Jobs : (got'[k] = None) = (stage'[k] # "closed")
    BY <1>6, <1>9 DEF BatchInv, OneReplyEach
  <2> QED BY <1>4, <1>12, <2>1 DEF OneReplyEach
<1> QED BY <1>10, <1>11, <1>13, <1>14 DEF BatchInv

LEMMA EndAnyStep == ASSUME BatchInv, EndAny PROVE BatchInv'
<1>1. WaiterTypeOK'
  BY DEF BatchInv, BatchTypeOK, EndAny, waiterVars, WaiterTypeOK
<1> QED BY <1>1, QuietBatch DEF EndAny

LEMMA ResolveTyped == ASSUME WaiterTypeOK, ResolveSeek PROVE WaiterTypeOK'
<1>1. \A tp \in TPs : Len(log[tp]) \in Nat
  BY DEF WaiterTypeOK
<1>2. pos' \in [TPs -> Nat] /\ \A tp \in TPs : pos'[tp] <= Len(log[tp])
  BY <1>1 DEF ResolveSeek, AtEnd, WaiterTypeOK
<1> QED BY <1>2, WaiterMoves DEF ResolveSeek, WaiterTypeOK

LEMMA BatchResolveStep == ASSUME BatchInv, BatchResolve PROVE BatchInv'
<1>1. WaiterTypeOK'
  BY ResolveTyped DEF BatchInv, BatchTypeOK, BatchResolve
<1> QED BY <1>1, QuietBatch DEF BatchResolve, ResolveSeek, batchVars, BatchInv, BatchTypeOK

LEMMA StepBatchInv == BatchInv /\ [BatchNext]_batchSteps => BatchInv'
<1> SUFFICES ASSUME BatchInv, [BatchNext]_batchSteps PROVE BatchInv'
  OBVIOUS
<1>1. CASE UNCHANGED batchSteps
  <2>1. UNCHANGED <<log, consumer, assigned, pos, reset, prepared, stage, keys, outcome, got, armed, dropped>>
    BY <1>1 DEF batchSteps, batchVars, waiterVars
  <2>2. WaiterTypeOK'
    BY <2>1 DEF BatchInv, BatchTypeOK, WaiterTypeOK
  <2> QED BY <2>1, <2>2, QuietBatch DEF BatchInv, BatchTypeOK
<1> QED BY <1>1, SendStep, PublishBatchStep, PrepareBatchStep, BeginAnyStep, AnyNothingStep,
           AnyReplyStep, EndAnyStep, BatchResolveStep DEF BatchNext, PollAny

LEMMA BatchInvHolds == BatchSpec => []BatchInv
BY BatchStarts, StepBatchInv, PTL DEF BatchSpec

-------------------------------------------------------------------------------
(* The batch that a caller of KafkaPythonWaiter can rely on.                *)
BatchSafe == BatchInv /\ BatchArmed /\ OpenReplyKept

(* Steps that leave the consumer where it is.                               *)
LEMMA UnmovedBatch ==
  ASSUME BatchSafe, BatchInv', UNCHANGED <<assigned, pos, reset, prepared>>,
         UNCHANGED <<log, stage, armed, dropped>>, keys' # {} => keys' = Open
  PROVE  BatchSafe'
BY DEF BatchSafe, BatchArmed, OpenReplyKept, InPosition, Open, PartitionsOf

LEMMA SafeStarts == BatchInit => BatchSafe
<1> SUFFICES ASSUME BatchInit PROVE BatchSafe
  OBVIOUS
<1>1. armed = {} /\ keys = {}
  BY DEF BatchInit, RunnerInit
<1> QED BY <1>1, BatchStarts DEF BatchSafe, BatchArmed, OpenReplyKept

(* The caller prepares before its first request: nothing is armed.          *)
LEMMA SafePrepare == ASSUME BatchSafe, PrepareBatch PROVE BatchSafe'
<1>1. BatchInv' /\ UNCHANGED <<log, stage, keys, armed, dropped>>
  BY PrepareBatchStep DEF BatchSafe, PrepareBatch, batchVars
<1>2. armed = {}
  BY DEF BatchSafe, BatchArmed, PrepareBatch, BatchInv, BatchTypeOK
<1> QED BY <1>1, <1>2 DEF BatchSafe, BatchArmed, OpenReplyKept, Open

(* A request that is sent was never answered.                               *)
LEMMA SafeSend == ASSUME BatchSafe, NEW j \in Jobs, Send(j) PROVE BatchSafe'
<1>1. /\ BatchInv' /\ BatchTypeOK /\ BatchInv /\ WaiterTypeOK /\ stage[j] = "new" /\ keys = {}
      /\ UNCHANGED <<log, consumer, assigned, pos, reset, prepared, keys, dropped>>
      /\ stage' = [stage EXCEPT ![j] = "open"]
      /\ armed' = IF InPosition(Topic) THEN armed \cup {j} ELSE armed
  BY SendStep DEF BatchSafe, BatchInv, BatchTypeOK, Send, waiterVars
<1>2. stage'[j] = "open" /\ \A k \in Jobs : k # j => stage'[k] = stage[k]
  BY <1>1 DEF BatchTypeOK
<1>3. armed \subseteq Jobs /\ j \notin armed /\ armed' \subseteq Jobs
  BY <1>1 DEF BatchSafe, BatchArmed, BatchTypeOK
<1>4. ASSUME NEW k \in armed' PROVE stage'[k] # "new" /\ InPosition(Topic)
  BY <1>1, <1>2, <1>3, <1>4 DEF BatchSafe, BatchArmed
<1>5. BatchArmed'
  BY <1>1, <1>4 DEF BatchArmed, InPosition, PartitionsOf
<1>6. ASSUME NEW k \in armed', stage'[k] = "open", NEW tp \in PartitionsOf(Topic)
      PROVE  tp \in assigned /\ \A i \in 1..pos[tp] : (log[tp][i].key = k => <<tp, i>> \in dropped)
  <2>1. CASE k = j
    <3>1. tp \in TPs /\ tp \in assigned
      BY <1>4, PartitionsTyped DEF InPosition
    <3>2. \A i \in 1..pos[tp] : i \in 1..Len(log[tp])
      BY <1>1, <3>1 DEF WaiterTypeOK
    <3>3. j # None
      BY WaiterAssumption
    <3> QED BY <1>1, <2>1, <3>1, <3>2, <3>3 DEF BatchInv, SentFirst
  <2>2. CASE k # j
    <3>1. k \in armed \cap Open
      BY <1>1, <1>2, <1>3, <1>6, <2>2 DEF Open
    <3> QED BY <3>1 DEF BatchSafe, OpenReplyKept
  <2> QED BY <2>1, <2>2
<1>7. OpenReplyKept'
  BY <1>1, <1>6 DEF OpenReplyKept, Open, PartitionsOf
<1> QED BY <1>1, <1>5, <1>7 DEF BatchSafe

LEMMA SafePublish == ASSUME BatchSafe, NEW j \in Jobs, Publish(j) PROVE BatchSafe'
<1>1. PICK p \in PartitionsOf(Topic), body \in Bodies : Append1(p, j, body)
  BY DEF Publish
<1>2. /\ BatchInv' /\ WaiterTypeOK /\ p \in TPs
      /\ UNCHANGED <<consumer, assigned, pos, reset, prepared, stage, keys, outcome, got, armed, dropped>>
  BY PublishBatchStep, PartitionsTyped DEF BatchSafe, BatchInv, BatchTypeOK, Publish, waiterVars, batchVars
<1>3. \A q \in TPs : Len(log[q]) \in Nat /\ \A i \in 1..Len(log[q]) : log'[q][i] = log[q][i]
  BY <1>1, <1>2, AppendKeeps
<1>4. \A q \in TPs : \A i \in 1..pos[q] : i \in 1..Len(log[q])
  BY <1>2, <1>3 DEF WaiterTypeOK
<1>5. OpenReplyKept'
  BY <1>2, <1>3, <1>4, PartitionsTyped DEF BatchSafe, OpenReplyKept, Open, PartitionsOf
<1>6. BatchArmed'
  BY <1>2 DEF BatchSafe, BatchArmed, InPosition, Open
<1> QED BY <1>2, <1>5, <1>6 DEF BatchSafe

(* The head of wait_for_any leaves an armed consumer alone.                 *)
LEMMA SafeBegin == ASSUME BatchSafe, HasWaitAny, BeginAny PROVE BatchSafe'
<1>1. /\ BatchInv' /\ BatchInv /\ UNCHANGED <<log, stage, armed, dropped>> /\ (keys' # {} => keys' = Open)
  BY BeginAnyStep DEF BatchSafe, BeginAny
<1>2. CASE armed = {}
  BY <1>1, <1>2 DEF BatchSafe, BatchArmed, OpenReplyKept, Open
<1>3. CASE armed # {}
  <2>1. InPosition(Topic)
    BY <1>3 DEF BatchSafe, BatchArmed
  <2>2. UNCHANGED <<assigned, pos, reset, prepared>>
    BY <2>1 DEF BeginAny, EnterWait, EnterWaitFails, EnterWaitRaises, InPosition, waiterVars
  <2> QED BY <1>1, <2>2, UnmovedBatch
<1> QED BY <1>2, <1>3

(* What a poll moves past was looked for in vain.                           *)
LEMMA UnmatchedRead ==
  ASSUME NEW take, NEW ks, Matches(take, ks) = {}, NEW tp \in TPs,
         NEW i \in pos[tp] + 1 .. pos[tp] + take[tp]
  PROVE  log[tp][i].key \notin ks
<1> DEFINE m == <<tp, i>>
<1>1. m \in {tp} \X (pos[tp] + 1 .. pos[tp] + take[tp]) /\ m[1] = tp /\ m[2] = i
  OBVIOUS
<1> HIDE DEF m
<1>2. log[m[1]][m[2]].key \notin ks
  BY <1>1 DEF Matches
<1> QED BY <1>1, <1>2

LEMMA SafeNothing == ASSUME BatchSafe, AnyNothing PROVE BatchSafe'
<1>1. PICK take \in Takes : PollWithoutMatch(take, keys)
  BY DEF AnyNothing
<1>2. /\ BatchInv' /\ WaiterTypeOK /\ keys = Open
      /\ UNCHANGED <<log, assigned, reset, prepared, stage, keys, outcome, got, armed, dropped>>
  BY <1>1, AnyNothingStep
     DEF BatchSafe, BatchArmed, BatchInv, BatchTypeOK, AnyNothing, batchVars, PollWithoutMatch
<1>3. \A tp \in TPs : pos[tp] \in Nat /\ take[tp] \in Nat /\ pos'[tp] = pos[tp] + take[tp]
  BY <1>1, <1>2, PollTyped DEF PollWithoutMatch, WaiterTypeOK
<1>4. ASSUME NEW k \in armed \cap Open, NEW tp \in PartitionsOf(Topic)
      PROVE  tp \in assigned /\ \A i \in 1..pos'[tp] : (log[tp][i].key = k => <<tp, i>> \in dropped)
  <2>1. tp \in TPs /\ tp \in assigned /\ \A i \in 1..pos[tp] : (log[tp][i].key = k => <<tp, i>> \in dropped)
    BY PartitionsTyped DEF BatchSafe, OpenReplyKept
  <2>2. ASSUME NEW i \in pos[tp] + 1 .. pos[tp] + take[tp] PROVE (log[tp][i].key = k => <<tp, i>> \in dropped)
    BY <1>1, <1>2, <2>1, UnmatchedRead DEF PollWithoutMatch
  <2>3. \A i \in 1..pos'[tp] : i \in 1..pos[tp] \/ i \in pos[tp] + 1 .. pos[tp] + take[tp]
    BY <1>3, <2>1
  <2> QED BY <2>1, <2>2, <2>3
<1>5. OpenReplyKept'
  BY <1>2, <1>4 DEF OpenReplyKept, Open, PartitionsOf
<1>6. BatchArmed'
  BY <1>2 DEF BatchSafe, BatchArmed, InPosition, Open, PartitionsOf
<1> QED BY <1>2, <1>5, <1>6 DEF BatchSafe

(* A poll with a match moves past that reply and those it drops.            *)
LEMMA SafeReply == ASSUME BatchSafe, AnyReply PROVE BatchSafe'
<1>1. PICK take \in Takes : \E m \in FirstMatches(take, keys), mode \in Contracts :
        PollWithMatch(take, keys, m) /\ Answer(log[m[1]][m[2]].key, m, mode) /\ Drops(take, m)
  BY DEF AnyReply
<1>2. PICK m \in FirstMatches(take, keys), mode \in Contracts :
        PollWithMatch(take, keys, m) /\ Answer(log[m[1]][m[2]].key, m, mode) /\ Drops(take, m)
  BY <1>1
<1>3. /\ BatchInv' /\ BatchTypeOK /\ WaiterTypeOK /\ keys' = {} /\ keys = Open
      /\ UNCHANGED <<log, assigned, reset, prepared, armed>>
  BY <1>2, AnyReplyStep DEF BatchSafe, BatchArmed, BatchInv, BatchTypeOK, AnyReply, PollWithMatch
<1>4. \A tp \in TPs : pos[tp] \in Nat /\ take[tp] \in Nat /\ pos'[tp] = pos[tp] + take[tp]
  BY <1>2, <1>3, PollTyped DEF PollWithMatch, WaiterTypeOK
<1> DEFINE j == log[m[1]][m[2]].key
<1>5. /\ m[1] \in TPs /\ j \in keys /\ m[2] \in pos[m[1]] + 1 .. pos[m[1]] + take[m[1]]
  BY <1>2, <1>3, MatchIsReply DEF FirstMatches, Open
<1>6. stage' = [stage EXCEPT ![j] = "closed"]
  BY <1>2 DEF Answer
<1>7. log[m[1]][m[2]].key = j /\ j \in Jobs
  BY <1>3, <1>5 DEF Open
<1> HIDE DEF j
<1>8. stage'[j] = "closed" /\ \A k \in Jobs : k # j => stage'[k] = stage[k]
  BY <1>3, <1>6, <1>7 DEF BatchTypeOK
<1>9. ASSUME NEW k \in armed, stage'[k] = "open", NEW tp \in PartitionsOf(Topic)
      PROVE  tp \in assigned /\ \A i \in 1..pos'[tp] : (log[tp][i].key = k => <<tp, i>> \in dropped')
  <2>1. k \in Jobs /\ k # j /\ k \in armed \cap Open
    BY <1>3, <1>8, <1>9 DEF BatchTypeOK, Open
  <2>2. tp \in TPs /\ tp \in assigned /\ \A i \in 1..pos[tp] : (log[tp][i].key = k => <<tp, i>> \in dropped)
    BY <2>1, PartitionsTyped DEF BatchSafe, OpenReplyKept
  <2>3. ASSUME NEW i \in pos[tp] + 1 .. pos[tp] + take[tp], log[tp][i].key = k
        PROVE  <<tp, i>> \in dropped'
    <3>1. <<tp, i>> # m
      BY <1>7, <2>1, <2>3
    <3>2. <<tp, i>> \in Matches(take, keys)
      <4> DEFINE n == <<tp, i>>
      <4>1. n \in {tp} \X (pos[tp] + 1 .. pos[tp] + take[tp]) /\ n[1] = tp /\ n[2] = i
        OBVIOUS
      <4> HIDE DEF n
      <4>2. log[n[1]][n[2]].key \in keys
        BY <1>3, <2>1, <2>3, <4>1
      <4>3. n \in Matches(take, keys)
        BY <2>2, <4>1, <4>2 DEF Matches
      <4> QED BY <4>3 DEF n
    <3> QED BY <1>2, <3>1, <3>2 DEF Drops
  <2>4. \A i \in 1..pos'[tp] : i \in 1..pos[tp] \/ i \in pos[tp] + 1 .. pos[tp] + take[tp]
    BY <1>4, <2>2
  <2>5. dropped \subseteq dropped'
    BY <1>2 DEF Drops
  <2> QED BY <2>2, <2>3, <2>4, <2>5
<1>10. OpenReplyKept'
  BY <1>3, <1>9 DEF OpenReplyKept, Open, PartitionsOf
<1>11. BatchArmed'
  <2>1. ASSUME NEW k \in armed PROVE stage'[k] # "new" /\ InPosition(Topic)'
    BY <1>3, <1>8 DEF BatchSafe, BatchArmed, BatchTypeOK, InPosition, PartitionsOf
  <2> QED BY <1>3, <2>1 DEF BatchArmed
<1> QED BY <1>3, <1>10, <1>11 DEF BatchSafe

LEMMA SafeEnd == ASSUME BatchSafe, EndAny PROVE BatchSafe'
BY EndAnyStep, UnmovedBatch DEF BatchSafe, EndAny, waiterVars

(* No seek is pending once a request is armed.                              *)
LEMMA SafeResolve == ASSUME BatchSafe, BatchResolve PROVE BatchSafe'
<1>1. BatchInv' /\ armed = {} /\ UNCHANGED <<log, stage, keys, armed, dropped>>
  BY BatchResolveStep DEF BatchSafe, BatchArmed, InPosition, BatchResolve, ResolveSeek, batchVars
<1> QED BY <1>1 DEF BatchSafe, BatchArmed, OpenReplyKept, Open

LEMMA StepSafe ==
  ASSUME HasWaitAny
  PROVE  BatchSafe /\ [BatchNext]_batchSteps => BatchSafe'
<1> SUFFICES ASSUME BatchSafe, [BatchNext]_batchSteps PROVE BatchSafe'
  OBVIOUS
<1>1. CASE UNCHANGED batchSteps
  <2>1. UNCHANGED <<log, assigned, pos, reset, prepared, stage, keys, armed, dropped>>
    BY <1>1 DEF batchSteps, batchVars, waiterVars
  <2>2. BatchInv'
    BY <1>1, StepBatchInv DEF BatchSafe
  <2> QED BY <2>1, <2>2, UnmovedBatch DEF BatchSafe, BatchArmed
<1> QED BY <1>1, SafeSend, SafePublish, SafePrepare, SafeBegin, SafeNothing, SafeReply, SafeEnd,
           SafeResolve DEF BatchNext, PollAny

-------------------------------------------------------------------------------
(* The types of all variables of the batch; a call waits for open requests, *)
(* and a request is closed exactly when it has an outcome                   *)
(* (kafka_async_job.py wait_for_any_safe).                                  *)
THEOREM BatchTypes == BatchSpec => []BatchTypeOK
<1>1. BatchInv => BatchTypeOK
  BY DEF BatchInv
<1> QED BY <1>1, BatchInvHolds, PTL

(* Each call closes one request, with a reply to that request, and no reply *)
(* closes two (wait_for_any_safe takes the correlation id off the record),  *)
(* however many records a poll hands over and whatever the waiter can do.   *)
THEOREM RepliesAreOwn == BatchSpec => []OneReplyEach
<1>1. BatchInv => OneReplyEach
  BY DEF BatchInv
<1> QED BY <1>1, BatchInvHolds, PTL

(* On a waiter that has wait_for_any (kafka_python.py:213), the replies to  *)
(* an open request that the consumer has passed are those in the rest of a  *)
(* batch whose match was returned: any number of requests, partitions and   *)
(* records, and of records in a poll.                                       *)
THEOREM OpenRepliesKept ==
  ASSUME HasWaitAny
  PROVE  BatchSpec => []OpenReplyKept
<1>1. BatchSafe => OpenReplyKept
  BY DEF BatchSafe
<1> QED BY <1>1, SafeStarts, StepSafe, PTL DEF BatchSpec
===============================================================================
