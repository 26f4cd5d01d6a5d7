--------------------------- MODULE MCFaultControl ---------------------------
(* FaultControl for TLC: two consoles.                                     *)
EXTENDS FaultControl, TLC

CONSTANTS c1, c2

\* Both consoles may run every action of the command line.
AllMenu == [o \in Operators |-> Actions]

\* Both consoles inject and reset the PostgreSQL incident.
RuleMenu == [o \in Operators |-> {"postgresql", "reset-postgresql"}]

Symmetry == Permutations({c1, c2})
=============================================================================
