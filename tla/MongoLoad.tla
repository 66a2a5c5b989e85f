------------------------------- MODULE MongoLoad ------------------------------
(***************************************************************************)
(* Loads of one MongoDB collection (dlt_pipelines/mongodb_runtime), one      *)
(* after the other, while others write to it: one cursor that is read chunk  *)
(* by chunk, or, in parallel, one query for each of the batches that a count *)
(* was cut into. An incremental load asks for the documents from the last    *)
(* value on that an earlier load has seen; dlt keeps it.                      *)
(*                                                                         *)
(* A document is the place in the natural order where it was inserted, with  *)
(* a stamp, which is the cursor field; a stamp is never less than one that    *)
(* was given before. A place is not used again.                              *)
(***************************************************************************)
EXTENDS Naturals, FiniteSetsExt

CONSTANTS
  Places,     \* 1..n: as many documents are ever inserted
  MaxStamp, ChunkSize,
  Options     \* records: parallel, arrow, limit (0: none), order (asc, desc,
              \* none), cursor (max, min, none), initial (0: none),
              \* filter (none, other, below, from), bound (of the latter two)

ASSUME MongoAssumption ==
  /\ Places \subseteq Nat /\ IsFiniteSet(Places)
  /\ ChunkSize \in Nat \ {0} /\ MaxStamp \in Nat
  /\ Options \subseteq
       [parallel : BOOLEAN, arrow : BOOLEAN, limit : Nat, order : {"asc", "desc", "none"},
        cursor : {"max", "min", "none"}, initial : Nat, filter : {"none", "other", "below", "from"},
        bound : Nat]

VARIABLES
  stamp,      \* place -> stamp of the document that is there, 0 if none
  clock,      \* the latest stamp
  next,       \* the place of the next document
  opts,
  last,       \* last value of the cursor, 0 if none
  phase,      \* idle, opened, reading (one cursor) or batches
  indexed,    \* one cursor: an index has the order, nothing is sorted
  ahead,      \* one cursor over sorted rows: those to come
  left,       \* one cursor: how many rows it may still return
  batches,    \* batches that have not run
  read,       \* the rows this load has got
  twice,      \* places of the documents it got more than once
  stored,     \* place -> the latest stamp with which it was loaded
  stay,       \* documents that were asked for from the start of this load on
  calm,       \* the batches agree on an order, and no write has moved a
              \* document in it, nor one that was got ahead of an index scan
  steady      \* in no load did they disagree, nor did a write slip past it

mongoVars ==
  <<stamp, clock, next, opts, last, phase, indexed, ahead, left, batches, read, twice, stored, stay, calm, steady>>
loadVars == <<last, phase, indexed, ahead, left, batches, read, twice, stored>>

There == {p \in Places : stamp[p] # 0}
Row(p) == [place |-> p, stamp |-> stamp[p]]

-----------------------------------------------------------------------------
(* A last value of zero counts as none: the load is a full one, not sorted.   *)
Active == opts.cursor # "none" /\ last # 0
(* Fault: the document at the last value is left out.                        *)
FilterOpBeyond(p) == Active => IF opts.cursor = "max" THEN stamp[p] > last ELSE stamp[p] < last
FilterOp(p) == Active => IF opts.cursor = "max" THEN stamp[p] >= last ELSE stamp[p] <= last
SortOp ==
  CASE Active /\ <<opts.order, opts.cursor>> \in {<<"asc", "max">>, <<"desc", "min">>} -> "up"
    [] Active /\ <<opts.order, opts.cursor>> \in {<<"asc", "min">>, <<"desc", "max">>} -> "down"
    [] OTHER -> "natural"

(* A filter of the user's on another field, or on the cursor field.           *)
UserFilter(p) ==
  CASE opts.filter = "none" -> TRUE
    [] opts.filter = "other" -> p % 2 = 1
    [] opts.filter = "below" -> stamp[p] < opts.bound
    [] opts.filter = "from" -> stamp[p] >= opts.bound
(* The same operator on the same field raises, and the load fails.            *)
Intersects == Active /\ opts.filter = "from" /\ opts.cursor = "max"
(* Another one takes the place of the incremental's: a dict is updated. The   *)
(* Arrow loader with one cursor asks for the user's filter only.              *)
Replaced == opts.filter \in {"below", "from"} \/ (opts.arrow /\ ~opts.parallel)
Asked(p) == UserFilter(p) /\ (Replaced \/ FilterOp(p))

(* What a sort promises: nothing of rows with the same value. Without a sort  *)
(* no order is promised at all, and queries have none in common.              *)
Before(order, r, q) ==
  CASE order = "up" -> r.stamp < q.stamp
    [] order = "down" -> r.stamp > q.stamp
    [] OTHER -> FALSE
(* What n rows a query may give first.                                       *)
Fronts(order, rows, n) ==
  {front \in SUBSET rows :
     /\ Cardinality(front) = Min({n, Cardinality(rows)})
     /\ \A r \in front, q \in rows \ front : ~Before(order, q, r)}
(* One scan goes along the records, or along an index and, where it has the   *)
(* same value again, along the records.                                      *)
Along(order, r, q) ==
  CASE order = "natural" -> r.place < q.place
    [] order = "up" -> r.stamp < q.stamp \/ (r.stamp = q.stamp /\ r.place < q.place)
    [] order = "down" -> r.stamp > q.stamp \/ (r.stamp = q.stamp /\ r.place > q.place)

Found == {Row(p) : p \in {p \in There : Asked(p)}}

-----------------------------------------------------------------------------
(* The batches: as many documents as the incremental's filter counts, the     *)
(* user's being left out, in pieces.                                         *)
Counted ==
  LET count == Cardinality({p \in There : FilterOp(p)})
  IN  IF opts.limit = 0 THEN count ELSE Min({count, opts.limit})
Skips == {s \in {k * ChunkSize : k \in 0..Counted} : s < Counted}
(* Fault: a batch is as long as what is left.                                *)
BatchesToEnd == {[skip |-> s, limit |-> Counted - s] : s \in Skips}
(* Fault: what is left is counted down too early.                            *)
BatchesShort ==
  {[skip |-> s, limit |-> Min({ChunkSize, IF Counted > s + ChunkSize THEN Counted - s - ChunkSize ELSE 1})] : s \in Skips}
Batches == {[skip |-> s, limit |-> Min({ChunkSize, Counted - s})] : s \in Skips}

Idle == phase = "idle"
StartLoad ==
  /\ Idle /\ phase' = "opened"
  /\ stay' = {p \in There : UserFilter(p) /\ FilterOp(p)} /\ calm' = TRUE
  /\ UNCHANGED <<stamp, clock, next, opts, last, indexed, ahead, left, batches, read, twice, stored, steady>>

(* The query runs when its first row is asked for: a sort sees what is there  *)
(* then, a scan goes on along the documents as they are.                      *)
Scans == SortOp = "natural" \/ indexed
OpenCursor ==
  /\ phase = "opened" /\ ~Intersects /\ ~opts.parallel /\ phase' = "reading"
  /\ indexed' \in {FALSE, SortOp # "natural"}
  /\ ahead' = IF SortOp = "natural" \/ indexed' THEN {} ELSE Found
  /\ left' = opts.limit
  /\ UNCHANGED <<stamp, clock, next, opts, last, batches, read, twice, stored, stay, calm, steady>>
(* Batches are pieces of one order only if there is one: a single batch needs *)
(* none.                                                                     *)
Agreed ==
  \/ Cardinality(Batches) <= 1
  \/ SortOp # "natural" /\ \A r, q \in Found : r.stamp = q.stamp => r = q
CutBatches ==
  /\ phase = "opened" /\ ~Intersects /\ opts.parallel /\ phase' = "batches"
  /\ batches' = Batches
  /\ calm' = (calm /\ Agreed) /\ steady' = (steady /\ Agreed)
  /\ UNCHANGED <<stamp, clock, next, opts, last, indexed, ahead, left, read, twice, stored, stay>>

PlacesOf(rows) == {r.place : r \in rows}
Get(rows) ==
  /\ read' = read \cup rows
  /\ twice' = twice \cup (PlacesOf(rows) \cap PlacesOf(read))

Upcoming == IF Scans THEN {r \in Found : \A q \in read : Along(SortOp, q, r)} ELSE ahead
Size == IF opts.limit # 0 /\ left < ChunkSize THEN left ELSE ChunkSize
Exhausted == Upcoming = {} \/ Size = 0
(* A scan takes its order as it is, sorted rows come with ties in any order.  *)
Slices ==
  {slice \in Fronts(SortOp, Upcoming, Size) :
     Scans => \A r \in slice, q \in Upcoming \ slice : Along(SortOp, r, q)}
ReadChunk ==
  /\ phase = "reading" /\ ~Exhausted
  /\ \E slice \in Slices :
       /\ Get(slice) /\ ahead' = ahead \ slice
       /\ left' = IF opts.limit = 0 THEN left ELSE left - Cardinality(slice)
  /\ UNCHANGED <<stamp, clock, next, opts, last, phase, indexed, batches, stored, stay, calm, steady>>

(* Each batch asks anew, in a thread of its own.                             *)
Windows(b) ==
  {pair[2] \ pair[1] : pair \in {p \in Fronts(SortOp, Found, b.skip) \X Fronts(SortOp, Found, b.skip + b.limit) :
                                    p[1] \subseteq p[2]}}
RunBatch ==
  \E b \in batches : \E rows \in Windows(b) :
    /\ Get(rows) /\ batches' = batches \ {b}
    /\ UNCHANGED <<stamp, clock, next, opts, last, phase, indexed, ahead, left, stored, stay, calm, steady>>

AllRead == (phase = "reading" /\ Exhausted) \/ (phase = "batches" /\ batches = {})
(* dlt drops the rows before the last value, stores the others and remembers  *)
(* the new last value with them.                                             *)
Kept ==
  {r \in read : Active => IF opts.cursor = "max" THEN r.stamp >= last ELSE r.stamp <= last}
Later(values) == IF opts.cursor = "max" THEN Max(values) ELSE Min(values)
Forget == phase' = "idle" /\ indexed' = FALSE /\ ahead' = {} /\ left' = 0 /\ batches' = {} /\ read' = {} /\ twice' = {}
Store ==
  /\ AllRead /\ Forget
  /\ stored' = [p \in Places |-> Max({stored[p]} \cup {r.stamp : r \in {k \in Kept : k.place = p}})]
  /\ last' = IF opts.cursor = "none" \/ Kept = {} THEN last
             ELSE Later({r.stamp : r \in Kept} \cup ({last} \ {0}))
  /\ UNCHANGED <<stamp, clock, next, opts, stay, calm, steady>>
(* A load that fails stores nothing and remembers nothing.                    *)
Fail ==
  /\ ~Idle /\ Forget
  /\ UNCHANGED <<stamp, clock, next, opts, last, stored, stay, calm, steady>>

-----------------------------------------------------------------------------
(* Others write.                                                             *)
Write(p, t, moves, passes) ==
  /\ stamp' = [stamp EXCEPT ![p] = t]
  /\ stay' = stay \ {p}
  /\ calm' = (calm /\ (Idle \/ ~moves))
  /\ steady' = (steady /\ (Idle \/ ~passes))
  /\ UNCHANGED <<opts, loadVars>>
Insert ==
  /\ next \in Places /\ next' = next + 1
  /\ \E t \in {clock, clock + 1} :
       /\ t <= MaxStamp /\ clock' = t
       /\ Write(next, t, opts.parallel /\ ~(SortOp = "up" /\ \A p \in There : stamp[p] < t),
                opts.parallel /\ SortOp # "up")
(* An update may move a document ahead of an index scan that has got it, or   *)
(* be of one that a scan has passed or will not come to again.               *)
Update ==
  \E p \in There, t \in {clock, clock + 1} :
    LET again == indexed /\ SortOp = "up" /\ p \in PlacesOf(read)
        behind == Scans /\ SortOp # "down" /\ \E q \in read : ~Along(SortOp, q, [place |-> p, stamp |-> t])
    IN  /\ t <= MaxStamp /\ clock' = t /\ UNCHANGED next
        /\ Write(p, t, opts.parallel \/ again, opts.parallel \/ behind)
Delete ==
  \E p \in There :
    /\ UNCHANGED <<clock, next>>
    /\ Write(p, 0, opts.parallel, opts.parallel)

MongoInit ==
  /\ opts \in Options /\ last = opts.initial
  /\ stamp = [p \in Places |-> 0] /\ clock = 1 /\ next = 1
  /\ phase = "idle" /\ indexed = FALSE /\ ahead = {} /\ left = 0 /\ batches = {} /\ read = {} /\ twice = {}
  /\ stored = [p \in Places |-> 0] /\ stay = {} /\ calm = TRUE /\ steady = TRUE
MongoNext ==
  \/ StartLoad \/ OpenCursor \/ CutBatches \/ ReadChunk \/ RunBatch \/ Store \/ Fail
  \/ Insert \/ Update \/ Delete
MongoSpec == MongoInit /\ [][MongoNext]_mongoVars

-----------------------------------------------------------------------------
(* Without a limit, a load gets every document that was asked for when it     *)
(* started and that nobody has touched. One in parallel gets them only if its *)
(* batches agree on an order (there is one batch, or a sort by a field that   *)
(* no two documents share), no write moved the documents in it, and no filter *)
(* on the cursor field made the count wrong.                                  *)
StayersLoaded ==
  (AllRead /\ opts.limit = 0 /\ (opts.parallel => calm /\ ~Replaced)) => stay \subseteq PlacesOf(read)

(* No load gets a document twice; but one in parallel may unless its batches  *)
(* agree on an order that stays, and a scan of an index in ascending order    *)
(* gets a document again that was updated after it had been got.              *)
OnceEach == calm => twice = {}

(* What an incremental load has left out is still ahead of it: no document is *)
(* behind the last value without having been loaded as it is now, when each    *)
(* load is in ascending order or complete, in parallel only in batches that   *)
(* agree, no filter of the user's makes the batches overshoot what there is,  *)
(* and no write slipped past a load.                                         *)
NothingLeftBehind ==
  (/\ opts.cursor = "max" /\ steady
   /\ opts.limit = 0 \/ (opts.initial # 0 /\ opts.order = "asc")
   /\ opts.parallel => opts.filter = "none") =>
    \A p \in There :
      (UserFilter(p) /\ stamp[p] >= opts.initial /\ stored[p] # stamp[p]) => stamp[p] >= last
===============================================================================
