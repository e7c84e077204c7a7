------------------------ MODULE MCWorkAssistingPool ------------------------
(* Small instances of WorkAssistingPool for TLC.                           *)
EXTENDS WorkAssistingPool

CONSTANTS a1, a2

=============================================================================
