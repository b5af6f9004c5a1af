--------------------------- MODULE MCSessionRecovery ---------------------------
(* Values of the constants of SessionRecovery for TLC.                     *)
EXTENDS SessionRecovery

CONSTANTS j1, j2, c1

OneJob  == <<j1>>
TwoJobs == <<j1, j2>>

OneClient == {c1}
FirstIsStill == {j1}

=============================================================================
