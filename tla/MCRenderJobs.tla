---------------------------- MODULE MCRenderJobs ----------------------------
(***************************************************************************)
(* Instances of RenderJobs for TLC.                                        *)
(***************************************************************************)
EXTENDS RenderJobs

CONSTANTS j1, j2, j3, j4, c1

TwoJobs   == {j1, j2}
FourJobs  == {j1, j2, j3, j4}
OneStill  == {j1}
OneClient == {c1}
JobSymmetry == Permutations(Jobs)

=============================================================================
