----------------------------- MODULE MCPhotoJobs -----------------------------
(* Values of the constants of PhotoJobs for TLC.                           *)
EXTENDS PhotoJobs

CONSTANTS p1, t1

TwoJobs == {p1, t1}

=============================================================================
