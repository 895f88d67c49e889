------------------------------ MODULE MCCommand ------------------------------
(* Command run in /w, which holds the sheets m and x, as does its directory d. *)
EXTENDS Command

Abs(parts) == [abs |-> TRUE, parts |-> parts]
Rel(parts) == [abs |-> FALSE, parts |-> parts]

MCCwd == Abs(<<"w">>)
MCFiles == {Abs(<<"w", "m">>), Abs(<<"w", "x">>), Abs(<<"w", "d", "m">>), Abs(<<"w", "d", "x">>)}
MCSources == {Rel(<<"m">>), Rel(<<"d", "m">>), Rel(<<"..", "w", "m">>), Rel(<<"d", "..", "d", "m">>),
              Abs(<<"w", "d", "m">>)}
MCRefs == {Rel(<<"m">>), Rel(<<"x">>), Rel(<<"d", "m">>), Rel(<<"d", "..", "x">>),
           Rel(<<"..", "m">>), Rel(<<"..", "x">>), Abs(<<"x">>), Abs(<<"w", "x">>)}

MCCells == (1..3) \X (1..2)

\* Grids of up to three rows, the last shorter, under every view of them.
Grid(height) == [r \in 1..height |-> [c \in 1..(IF r = 3 THEN 1 ELSE 2) |-> <<r, c>>]]
MCComputeds ==
    UNION {[grid : {Grid(height)},
            view : [hiddenRows : SUBSET (1..height), hiddenCols : SUBSET (1..2), headerRows : SUBSET (1..height)]]
           : height \in 0..3}
=============================================================================
