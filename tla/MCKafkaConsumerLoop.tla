------------------------ MODULE MCKafkaConsumerLoop ------------------------
(***************************************************************************)
(* Instances of KafkaConsumerLoop for TLC.                                 *)
(***************************************************************************)
EXTENDS KafkaConsumerLoop, TLC

CONSTANTS c1, c2, p1, p2, g1

\* One consumer group owns every process and every partition.
OneGroup == [x \in Consumers \cup Partitions |-> g1]

NoPoison == {}
FirstIsPoison == {<<p1, 0>>}
SecondIsPoison == {<<p1, 1>>}

\* Processes are interchangeable.
ConsumerSymmetry == Permutations(Consumers)
=============================================================================
