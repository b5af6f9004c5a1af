------------------------------- MODULE MCUploads -------------------------------
(* Values of the constants of Uploads for TLC.                             *)
EXTENDS Uploads, TLC

CONSTANTS u1, w1, c1, c2

OneUpload   == {u1, w1}
TwoClients  == {c1, c2}
SomeBudgets == {6, Unlimited}

Symmetry == Permutations(TwoClients)

=============================================================================
