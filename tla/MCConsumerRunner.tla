-------------------------- MODULE MCConsumerRunner --------------------------
(***************************************************************************)
(* ConsumerRunner on a small instance: one group that reads                *)
(* processed_articles, two partitions, kills and signals bounded.          *)
(***************************************************************************)
EXTENDS ConsumerRunner

CONSTANTS db, p1, p2, m1

MCGroup == {db}
MCTopic == {"processed_articles"}
MCSubscribes == [g \in MCGroup |-> "processed_articles"]
=============================================================================
