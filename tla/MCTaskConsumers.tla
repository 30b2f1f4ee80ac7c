-------------------------- MODULE MCTaskConsumers --------------------------
(* Instances of TaskConsumers for TLC.                                     *)
EXTENDS TaskConsumers, TLC

\* The slots of consumers and the goroutines are interchangeable in Spec.
SafetySymmetry == Permutations(Slots) \cup Permutations(Calls)
=============================================================================
