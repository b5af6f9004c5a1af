--------------------------- MODULE MCPrintDelivery ---------------------------
(* Values of the constants of PrintDelivery for TLC.                       *)
EXTENDS PrintDelivery, TLC

CONSTANTS c1, c2

TwoClients == {c1, c2}

Symmetry == Permutations(TwoClients)

=============================================================================
