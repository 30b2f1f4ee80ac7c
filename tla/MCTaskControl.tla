--------------------------- MODULE MCTaskControl ---------------------------
(* Names, settings and handlers are interchangeable.                       *)
EXTENDS TaskControl, TLC
Symmetry == Permutations(Names) \cup Permutations(Settings) \cup Permutations(Handlers)
=============================================================================
