--------------------------- MODULE MCEventDelivery ---------------------------
(* Instances of EventDelivery for TLC.                                     *)
EXTENDS EventDelivery

CONSTANTS q1, q2

Site(answer, lookedUp, configured) ==
    [alive |-> answer, listed |-> lookedUp, nsqaddrs |-> configured]

\* None configured, with both nodes or one of them; one configured: with both nodes,
\* unlisted, or down.
MCSites ==
    {Site({q1, q2}, {q1, q2}, {}), Site({q1}, {q1}, {}),
     Site({q1, q2}, {q1, q2}, {q2}), Site({q1, q2}, {q1}, {q2}), Site({q1}, {q1}, {q2})}
=============================================================================
