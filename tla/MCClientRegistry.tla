-------------------------- MODULE MCClientRegistry --------------------------
(* Instances of ClientRegistry for TLC.  The liveness properties tell      *)
(* nothing apart by symmetry, so the instance has none.                    *)
EXTENDS ClientRegistry
=============================================================================
