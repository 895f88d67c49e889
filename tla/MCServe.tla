------------------------------- MODULE MCServe -------------------------------
(* Serve on documents told apart only by which edits they include. *)
EXTENDS Serve, TLC

CONSTANTS r1, r2, r3, setCell, malformed, insertRow

MCDocs == {d : d \in SUBSET {setCell, insertRow}}
MCInitialDoc == {}
MCCellEdits == {setCell, malformed}
MCStructuralEdits == {insertRow}

\* Doing an edit again undoes it, so that a document can come back.
MCApply(d, e) ==
    CASE e = malformed -> Rejected
      [] e \in d -> d \ {e}
      [] OTHER -> d \cup {e}

MCSymmetry == Permutations(Requests)
=============================================================================
