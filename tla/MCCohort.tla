------------------------------ MODULE MCCohort ------------------------------
(* Small cohorts for TLC: whom cleanup is run for.                         *)
EXTENDS Cohort

\* cleanup --participant 1.
First == {{1}}

\* One deployment of participant 1 at a time may go on without its azd up.
FirstOnce == [i \in Participants |-> IF i = 1 THEN 1 ELSE 0]
=============================================================================
