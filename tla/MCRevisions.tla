----------------------------- MODULE MCRevisions -----------------------------
(* Values of the constants of Revisions for TLC.                           *)
EXTENDS Revisions, TLC

CONSTANTS c1, c2, part, dimensions

TwoClients == {c1, c2}
TwoNames   == {part, dimensions}

Symmetry == Permutations(TwoClients)

=============================================================================
