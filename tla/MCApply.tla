------------------------------- MODULE MCApply -------------------------------
(* Apply with two runs and three documents, one of them also kept on disk in  *)
(* bytes that are not the ones Text writes.                                   *)
EXTENDS Apply, TLC

CONSTANTS d0, d1, d2, raw, garbled

MCDocs == {d0, d1, d2}
MCOld == {raw, garbled}
MCParse == [t \in MCDocs \cup MCOld |->
    IF t = raw THEN d0 ELSE IF t = garbled THEN Bad ELSE t]
MCText == [d \in MCDocs |-> d]

\* An operation refused on one of the documents, and one that overwrites.
Advance == (d0 :> d1) @@ (d1 :> d2) @@ (d2 :> Bad)
Overwrite == [d \in MCDocs |-> d1]

MCBatches == [base : {NoBase, d0, d1}, fold : {Advance, Overwrite}]

MCSymmetry == Permutations(Savers)
=============================================================================
