----------------------------- MODULE MCKafkaBatch ------------------------------
(* One topic with two partitions.                                            *)
EXTENDS KafkaBatch

CONSTANTS t1

MCTopicOf == [tp \in TPs |-> t1]
===============================================================================
