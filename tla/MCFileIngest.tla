------------------------------ MODULE MCFileIngest ------------------------------
(* Values of the constants of FileIngest for TLC.                          *)
EXTENDS FileIngest

CONSTANTS t1, c1, c2, p1, p2

OneTransfer == {t1}
TwoClients  == {c1, c2}
TwoPaths    == {p1, p2}

\* What may be declared: the size, the digest, both or nothing.
AllDeclarations == [size : {1, None}, digest : {1, None}]

=============================================================================
