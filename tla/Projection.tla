------------------------------ MODULE Projection ------------------------------
(***************************************************************************)
(* What render prints of a computed grid, a sequence of rows of cells: the *)
(* grid as a viewport sees it, less the rows and columns its view hides    *)
(* when it is told to drop them, and the sections of the HTML table, whose *)
(* header rows are the ones the view declares.  A view is resolved by the  *)
(* engine (external) to 1-based positions within the grid.                 *)
(***************************************************************************)
EXTENDS Naturals, SequencesExt

Policies == {"keep", "drop"}

KeepColumns(row, hidden) ==
    LET kept[c \in 0..Len(row)] ==
            IF c = 0 THEN <<>>
            ELSE IF c \in hidden THEN kept[c - 1] ELSE Append(kept[c - 1], row[c])
    IN  kept[Len(row)]

\* Mutated: a header row keeps the number it had.
LandsWhereItWas(out, at) == at

\* The number row at is appended under.
Lands(out, at) == Len(out.grid) + 1

\* dropHidden: a header row that stays is renumbered to where it landed.
DropHidden(grid, view) ==
    LET out[at \in 0..Len(grid)] ==
            IF at = 0 THEN [grid |-> <<>>, headerRows |-> {}]
            ELSE IF at \in view.hiddenRows THEN out[at - 1]
            ELSE [grid |-> Append(out[at - 1].grid, KeepColumns(grid[at], view.hiddenCols)),
                  headerRows |-> out[at - 1].headerRows \cup
                      (IF at \in view.headerRows THEN {Lands(out[at - 1], at)} ELSE {})]
    IN  out[Len(grid)]

\* project
Project(grid, view, policy) ==
    IF policy = "keep" THEN [grid |-> grid, headerRows |-> view.headerRows]
    ELSE DropHidden(grid, view)

LeadingHeaderRows(seen) ==
    CHOOSE n \in 0..Len(seen.grid) : 1..n \subseteq seen.headerRows /\ n + 1 \notin seen.headerRows

\* writeHTML and htmlSections: the rows of the thead, and those below it.
HTML(seen) ==
    LET rows == [i \in DOMAIN seen.grid |-> [cells |-> seen.grid[i], isHeader |-> i \in seen.headerRows]]
        leading == LeadingHeaderRows(seen)
    IN  [head |-> SubSeq(rows, 1, leading), body |-> SubSeq(rows, leading + 1, Len(rows))]
=============================================================================
