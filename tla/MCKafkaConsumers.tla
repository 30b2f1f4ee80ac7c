-------------------------- MODULE MCKafkaConsumers --------------------------
(* Instances of KafkaConsumers for TLC.                                    *)
EXTENDS KafkaConsumers, TLC

\* The slots of consumers are interchangeable in Spec.
SafetySymmetry == Permutations(Slots)
=============================================================================
