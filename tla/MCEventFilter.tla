---------------------------- MODULE MCEventFilter ----------------------------
(* Schemas and definitions are interchangeable; columns have an order.     *)
EXTENDS EventFilter, TLC
CONSTANTS c1, c2
TwoColumns == <<c1, c2>>
Symmetry == Permutations(Schemas) \cup Permutations(Definitions)
=============================================================================
