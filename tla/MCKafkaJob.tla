------------------------------ MODULE MCKafkaJob -------------------------------
(* Two jobs, on two topics or on one; up to two partitions per topic.        *)
EXTENDS KafkaJob

CONSTANTS j1, j2, t1, t2, p1, p2, p3

MCTopicOf == [tp \in TPs |-> IF tp = p3 THEN t2 ELSE t1]
MCSameTopic == [j \in Jobs |-> t1]
MCTwoTopics == [j \in Jobs |-> IF j = j1 THEN t1 ELSE t2]
===============================================================================
