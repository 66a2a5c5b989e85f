------------------------------ MODULE MCMongoLoad -----------------------------
(* Three documents, chunks of two, three stamps: batches of different        *)
(* lengths, documents that share a stamp and documents that do not, a limit   *)
(* that cuts a load short, and an update between any two chunks.              *)
EXTENDS MongoLoad

MCPlaces == 1..3
Option(parallel, arrow, limit, order, cursor, initial, filter, bound) ==
  [parallel |-> parallel, arrow |-> arrow, limit |-> limit, order |-> order, cursor |-> cursor,
   initial |-> initial, filter |-> filter, bound |-> bound]
MCOptions ==
  {Option(TRUE, FALSE, l, "none", "none", 0, "other", 0) : l \in {0, 3}}
  \cup {Option(TRUE, TRUE, 0, "asc", "max", 0, "none", 0)}
  \cup {Option(p, FALSE, 0, o, c, 0, "none", 0) : p \in BOOLEAN, o \in {"asc", "desc"}, c \in {"max", "min"}}
  \cup {Option(p, FALSE, 1, "asc", "max", 1, "none", 0) : p \in BOOLEAN}
  \cup {Option(FALSE, FALSE, 1, "desc", "max", 1, "none", 0), Option(FALSE, FALSE, 1, "asc", "max", 0, "none", 0)}
  \cup {Option(FALSE, TRUE, l, "asc", "max", 1, "none", 0) : l \in {0, 1}}
  \cup {Option(p, FALSE, 0, "asc", "max", 2, "below", 3) : p \in BOOLEAN}
  \cup {Option(FALSE, FALSE, 0, "asc", c, 0, "from", 2) : c \in {"max", "min"}}
===============================================================================
