--------------------------- MODULE AtLeastOnceLog ---------------------------
(***************************************************************************)
(* What a Kafka consumer group of ProxyDefence promises to the service     *)
(* behind it, without saying how: every message of the subscribed topic is *)
(* handed to the handler at least once, in the order of its partition, and *)
(* a message is acknowledged (it will not be handed out again after a      *)
(* restart) only after its handler has returned.  Handling a message twice *)
(* is allowed, handling is never skipped.                                  *)
(*                                                                         *)
(* backend/shared/kafka/consumer.py implements this; see ConsumerRunner.   *)
(***************************************************************************)
EXTENDS Naturals

CONSTANTS
  Group,      \* consumer groups (database-service, embedding-service, ...)
  Partition   \* partitions of a topic

VARIABLES
  produced,   \* produced[g][p]: messages in partition p of g's topic
  done,       \* triples <<g, p, o>> whose handler has returned
  acked       \* acked[g][p]: offsets 1..acked[g][p] are acknowledged

aloVars == <<produced, done, acked>>

AInit ==
  /\ produced = [g \in Group |-> [p \in Partition |-> 0]]
  /\ done = {}
  /\ acked = [g \in Group |-> [p \in Partition |-> 0]]

\* Messages only accumulate.  Groups that share a topic see it grow together.
Produce ==
  /\ produced' \in [Group -> [Partition -> Nat]]
  /\ \A g \in Group, p \in Partition : produced'[g][p] >= produced[g][p]
  /\ UNCHANGED <<done, acked>>

\* The handler of g returns for message o of partition p.  Every earlier
\* message of the partition has been handled before.
Handle(g, p, o) ==
  /\ o \in 1..produced[g][p]
  /\ \A e \in 1..(o - 1) : <<g, p, e>> \in done
  /\ done' = done \cup {<<g, p, o>>}
  /\ UNCHANGED <<produced, acked>>

\* Acknowledgements move forward, over handled messages only.
Acknowledge(g) ==
  /\ acked' = [acked EXCEPT ![g] = acked'[g]]
  /\ acked'[g] \in [Partition -> Nat]
  /\ \A p \in Partition :
       /\ acked'[g][p] >= acked[g][p]
       /\ \A o \in 1..acked'[g][p] : <<g, p, o>> \in done
  /\ UNCHANGED <<produced, done>>

ANext ==
  \/ Produce
  \/ \E g \in Group, p \in Partition : \E o \in 1..produced[g][p] : Handle(g, p, o)
  \/ \E g \in Group : Acknowledge(g)

ASpec == AInit /\ [][ANext]_aloVars
=============================================================================
