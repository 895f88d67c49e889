------------------------------ MODULE MCSession ------------------------------
(* Session on a sheet of two cells and two texts. *)
EXTENDS Session, TLC

CONSTANTS c1, c2, c3, blank, text, rejected

Cells == 1..2
MCDocs == [Cells -> {blank, text}]
MCInitialDoc == [i \in Cells |-> blank]

\* Set a cell to a text, or try a malformed formula.
MCCellEdits == [at : Cells, text : {text}] \cup {[at |-> 1, text |-> "=("]}

\* Insert a blank row above a cell (the last row falls off the window), or
\* delete one.
MCStructuralEdits == {[rows |-> "insert"], [rows |-> "delete"]}

MCApply(d, e) ==
    IF e \in MCStructuralEdits
    THEN IF e.rows = "insert" THEN [d EXCEPT ![1] = blank, ![2] = d[1]]
                              ELSE [d EXCEPT ![1] = d[2], ![2] = blank]
    ELSE IF e.text = "=(" THEN rejected ELSE [d EXCEPT ![e.at] = e.text]

MCSymmetry == Permutations(Callers)
=============================================================================
