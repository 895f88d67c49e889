-------------------------------- MODULE MCTui --------------------------------
(* Tui on a grid of up to three rows and two columns that hides its second   *)
(* row, and its first when there are three.                                   *)
EXTENDS Tui, TLC

CONSTANTS x, y, rejected

MaxRows == 3
MaxCols == 2

MCDocs == [rows : 0..MaxRows, cols : 0..MaxCols, text : {x, y}]
MCInitialDoc == [rows |-> 2, cols |-> 1, text |-> x]
MCCellEdits == [at : (0..2) \X (0..1), text : {x, y, "=("}]
MCFill(from, to) == [fill |-> to, from |-> from]
MCDuplicateRow(r) == [row |-> r]
MCDuplicateCol(c) == [column |-> c]

MCApply(d, e) ==
    LET wider(n, m) == IF n > m THEN n ELSE m IN
    CASE DOMAIN e = {"row"} -> [d EXCEPT !.rows = AtMost(@ + 1, MaxRows)]
      [] DOMAIN e = {"column"} -> [d EXCEPT !.cols = AtMost(@ + 1, MaxCols)]
      [] DOMAIN e = {"fill", "from"} -> [d EXCEPT !.text = x]
      [] OTHER -> IF e.text = "=(" THEN rejected
                  ELSE [rows |-> wider(d.rows, e.at[1] + 1),
                        cols |-> wider(d.cols, e.at[2] + 1), text |-> e.text]

MCRowsOf(d) == d.rows
MCColsOf(d) == d.cols
MCHiddenRows(d) == (IF d.rows = 3 THEN {0, 1} ELSE {1}) \cap 0..(d.rows - 1)
MCHiddenCols(d) == {1} \cap 0..(d.cols - 1)
=============================================================================
