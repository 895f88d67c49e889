---------------------------- MODULE MCBoundedRead ----------------------------
(* BoundedRead over every source of up to MaxLength bytes. A byte is 1 when it *)
(* opens a cell, else 0.                                                       *)
EXTENDS BoundedRead

MCBytes == {0, 1}

MCCensus(bytes) == FoldLeft(+, 0, bytes)
=============================================================================
