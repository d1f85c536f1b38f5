---------------------------- MODULE MCRabbitMQBroker ----------------------------
(***************************************************************************)
(* Small instances of RabbitMQBroker for TLC.                              *)
(***************************************************************************)
EXTENDS RabbitMQBroker

CONSTANTS t1, t2     \* tasks

OneOfEach == [t \in {t1, t2} |-> IF t = t1 THEN ALO ELSE AMO]
OnlyALO == [t \in {t1} |-> ALO]
================================================================================
