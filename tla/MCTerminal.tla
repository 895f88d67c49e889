------------------------------ MODULE MCTerminal ------------------------------
(* Terminal with the editor's sheets of MCTui, and a file of five rows in three *)
(* blocks with two in-place writes, of which the second keeps the length and    *)
(* lands in the same mtime granule as the first.                                *)
EXTENDS Terminal, MCTui

MCStat == [v \in 0..MaxVersion |-> IF v = 0 THEN 0 ELSE 1]
=============================================================================
