--------------------------- MODULE MCFaultLauncher ---------------------------
(* FaultLauncher for TLC: two pages of one participant.                    *)
EXTENDS FaultLauncher

CONSTANTS p1, p2

\* One page uses every button, the other starts the PostgreSQL incident.
Buttons == [p \in Operators |-> IF p = p1 THEN Actions ELSE {"postgresql"}]
=============================================================================
