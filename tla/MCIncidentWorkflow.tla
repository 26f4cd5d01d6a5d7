------------------------- MODULE MCIncidentWorkflow -------------------------
(* Small instances of IncidentWorkflow: which console may run what.        *)
EXTENDS IncidentWorkflow

CONSTANTS c1, c2

\* Two consoles install and remove.
Operators == [c \in Consoles |-> {"install", "remove"}]

\* Every console may run every command.
Everything == [c \in Consoles |-> Commands]

\* One installs while the other provisions.
Race == [c \in Consoles |-> IF c = c1 THEN {"install"} ELSE {"provision"}]
=============================================================================
