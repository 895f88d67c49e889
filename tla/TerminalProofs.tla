--------------------------- MODULE TerminalProofs ---------------------------
(***************************************************************************)
(* tsv tui for any sheet, terminal, file and writer of it: the editor's    *)
(* cursor keeps to the grid and leaves the window only by a re-hide,       *)
(* "saved" is true, nobody leaves an edit behind unwarned; and the pager   *)
(* catches a write with the next key, refuses with cause, and mixes no     *)
(* versions but under a write.                                             *)
(***************************************************************************)
EXTENDS Terminal, NaturalsInduction, WellFoundedInduction, TLAPS

-----------------------------------------------------------------------------
\* The editor: Tui.

LEMMA GridType ==
    ASSUME NEW d \in Docs
    PROVE  /\ Height(d) \in Nat /\ 1 <= Height(d)
           /\ Width(d) \in Nat /\ 1 <= Width(d)
BY EditorAssumption DEF Height, Width, AtLeast

LEMMA HeightType ==
    ASSUME TypeOK
    PROVE  viewHeight \in Int
BY EditorAssumption DEF TypeOK

LEMMA VisibleType ==
    ASSUME NEW d \in Docs, NEW h \in Int
    PROVE  VisibleRows(d, h) \in Nat /\ 1 <= VisibleRows(d, h)
BY GridType DEF VisibleRows, AtLeast, chromeLines

\* scrollToCursor: the window starts in the grid, and the cursor is in it.
LEMMA Scrolls ==
    ASSUME TypeOK, NEW r \in Nat, NEW h \in Int, r < Height(shown.doc), ScrollTo(r, h)
    PROVE  /\ top' \in Nat /\ top' < Height(shown.doc)
           /\ top' <= r /\ r < top' + VisibleRows(shown.doc, h)
<1> DEFINE H == Height(shown.doc)
           V == VisibleRows(shown.doc, h)
<1>1. shown.doc \in Docs /\ top \in Nat
    BY DEF TypeOK
<1>2. H \in Nat /\ V \in Nat /\ 1 <= V /\ r < H
    BY <1>1, GridType, VisibleType
<1>3. top' = AtLeast(AtMost(IF r < top THEN r ELSE IF r >= top + V THEN r - V + 1 ELSE top,
        H - V), 0)
    BY DEF ScrollTo
<1> HIDE DEF H, V
<1>4. top' \in Nat /\ top' < H /\ top' <= r /\ r < top' + V
    BY <1>1, <1>2, <1>3 DEF AtLeast, AtMost
<1> QED
    BY <1>4 DEF H, V

\* What an edit does to the session, to the snapshot and to the grid.
LEMMA EditGrows ==
    ASSUME TypeOK, ShownIsSession, NEW e \in EditsOf(doc), Edited(e)
    PROVE  /\ doc' \in Docs /\ isDirty' = TRUE
           /\ shown' = [doc |-> doc', isDirty |-> TRUE]
           /\ file' = file /\ unwarned' = TRUE /\ isConfirmingQuit' = FALSE
           /\ Height(shown.doc) <= Height(shown'.doc)
           /\ Width(shown.doc) <= Width(shown'.doc)
<1>1. doc \in Docs /\ doc' = Apply(doc, e) /\ Apply(doc, e) # Rejected
    BY DEF TypeOK, Edited
<1>2. /\ doc' \in Docs
      /\ RowsOf(doc) <= RowsOf(doc') /\ ColsOf(doc) <= ColsOf(doc')
    BY <1>1, EditorAssumption
<1>3. /\ isDirty' = TRUE /\ shown' = [doc |-> doc', isDirty |-> TRUE]
      /\ file' = file /\ unwarned' = TRUE /\ isConfirmingQuit' = FALSE
    BY DEF Edited, Snapshot
<1>4. shown.doc = doc /\ shown'.doc = doc'
    BY <1>3 DEF ShownIsSession
<1>5. RowsOf(doc) \in Nat /\ RowsOf(doc') \in Nat /\ ColsOf(doc) \in Nat /\ ColsOf(doc') \in Nat
    BY <1>1, <1>2, EditorAssumption
<1>6. Height(doc) <= Height(doc') /\ Width(doc) <= Width(doc')
    BY <1>2, <1>5 DEF Height, Width, AtLeast
<1> QED
    BY <1>2, <1>3, <1>4, <1>6

\* The cells, rows and columns that the keys address are the grid's.
LEMMA KeysAddressTheGrid ==
    ASSUME CursorInGrid, ShownIsSession
    PROVE  /\ \A from \in {<<row - 1, col>>, <<row, col - 1>>} :
                from[1] >= 0 /\ from[2] >= 0 => Fill(from, <<row, col>>) \in EditsOf(doc)
           /\ DuplicateRow(row) \in EditsOf(doc) /\ DuplicateCol(col) \in EditsOf(doc)
           /\ CellEdits \subseteq EditsOf(doc)
<1>1. /\ doc \in Docs /\ shown.doc = doc /\ row \in Nat /\ col \in Nat
      /\ row < Height(doc) /\ col < Width(doc)
    BY DEF CursorInGrid, TypeOK, ShownIsSession
<1>2. Height(doc) \in Nat /\ Width(doc) \in Nat
    BY <1>1, GridType
<1>3. row \in 0..(Height(doc) - 1) /\ col \in 0..(Width(doc) - 1)
    BY <1>1, <1>2
<1>4. <<row, col>> \in (0..(Height(doc) - 1)) \X (0..(Width(doc) - 1))
    BY <1>3
<1>5. ASSUME NEW from \in {<<row - 1, col>>, <<row, col - 1>>}, from[1] >= 0, from[2] >= 0
      PROVE  Fill(from, <<row, col>>) \in EditsOf(doc)
    <2>1. from \in (0..(Height(doc) - 1)) \X (0..(Width(doc) - 1))
        BY <1>1, <1>2, <1>3, <1>5
    <2> QED
        BY <2>1, <1>4 DEF EditsOf
<1>6. DuplicateRow(row) \in EditsOf(doc) /\ DuplicateCol(col) \in EditsOf(doc)
    BY <1>3 DEF EditsOf
<1>7. CellEdits \subseteq EditsOf(doc)
    BY DEF EditsOf
<1> QED
    BY <1>5, <1>6, <1>7

\* What holds of every key that edits: commit, fill and duplicate.
EditsTheGrid ==
    /\ doc' \in Docs /\ isDirty' = TRUE
    /\ shown' = [doc |-> doc', isDirty |-> TRUE]
    /\ file' = file /\ unwarned' = TRUE /\ isConfirmingQuit' = FALSE
    /\ Height(shown.doc) <= Height(shown'.doc)
    /\ Width(shown.doc) <= Width(shown'.doc)
    /\ UNCHANGED <<row, col, top, viewHeight, isRevealing, isQuitting, armed>>
    /\ mode' \in {"nav", "edit"}

LEMMA EditingKeys ==
    ASSUME CursorInGrid, ShownIsSession, Commit \/ FillFrom \/ Duplicate
    PROVE  EditsTheGrid
<1>1. TypeOK
    BY DEF CursorInGrid
<1>2. CASE Commit
    <2>1. PICK e \in CellEdits : Edited(e)
        BY <1>2 DEF Commit
    <2>2. e \in EditsOf(doc)
        BY <2>1, KeysAddressTheGrid
    <2> QED
        BY <1>1, <1>2, <2>1, <2>2, EditGrows DEF Commit, EditsTheGrid, cursorVars
<1>3. CASE FillFrom
    <2>1. PICK from \in {<<row - 1, col>>, <<row, col - 1>>} :
            from[1] >= 0 /\ from[2] >= 0 /\ Edited(Fill(from, <<row, col>>))
        BY <1>3 DEF FillFrom
    <2>2. Fill(from, <<row, col>>) \in EditsOf(doc)
        BY <2>1, KeysAddressTheGrid
    <2>3. mode' \in {"nav", "edit"}
        BY <1>1, <1>3 DEF FillFrom, TypeOK
    <2> QED
        BY <1>1, <1>3, <2>1, <2>2, <2>3, EditGrows DEF FillFrom, EditsTheGrid, cursorVars
<1>4. CASE Duplicate
    <2>1. PICK e \in EditsOf(doc) : Edited(e)
        BY <1>4, KeysAddressTheGrid DEF Duplicate
    <2>2. mode' \in {"nav", "edit"}
        BY <1>1, <1>4 DEF Duplicate, TypeOK
    <2> QED
        BY <1>1, <1>4, <2>1, <2>2, EditGrows DEF Duplicate, EditsTheGrid, cursorVars
<1> QED
    BY <1>2, <1>3, <1>4

\* A nonempty set of naturals has a least member.
LEMMA LeastIn ==
    ASSUME NEW S \in SUBSET Nat, S # {}
    PROVE  \E j \in S : \A k \in S : j <= k
<1> DEFINE R == OpToRel(<, Nat)
<1>1. IsWellFoundedOn(R, Nat)
    BY NatLessThanWellFounded
<1>2. \A i, j \in Nat : <<i, j>> \in R <=> i < j
    BY DEF OpToRel
<1> HIDE DEF R
<1>3. PICK j \in S : \A k \in S : ~(<<k, j>> \in R)
    BY <1>1, WFMin
<1>4. ASSUME NEW k \in S PROVE j <= k
    <2>1. k \in Nat /\ j \in Nat /\ ~(k < j)
        BY <1>2, <1>3
    <2> QED
        BY <2>1
<1> QED
    BY <1>4

\* A nonempty set of naturals below i has a greatest one.
LEMMA GreatestBelow ==
    ASSUME NEW i \in Nat, NEW S \in SUBSET Nat, S # {}, \A j \in S : j < i
    PROVE  \E j \in S : \A k \in S : j >= k
<1> DEFINE T == {n \in Nat : i - n \in S}
<1>1. \A k \in S : i - k \in T
    BY SMT
<1>2. T \in SUBSET Nat /\ T # {}
    BY <1>1
<1>3. PICK n \in T : \A m \in T : n <= m
    <2> HIDE DEF T
    <2> QED
        BY <1>2, LeastIn
<1>4. i - n \in S /\ n \in Nat
    BY <1>3
<1>5. ASSUME NEW k \in S PROVE i - n >= k
    <2>1. i - k \in Nat /\ n <= i - k
        <3>1. i - k \in T
            BY <1>1
        <3>2. n <= i - k
            <4> HIDE DEF T
            <4> QED
                BY <1>3, <3>1
        <3> QED
            BY <3>1, <3>2
    <2> QED
        BY <2>1, <1>4
<1> QED
    BY <1>4, <1>5

\* onVisibleRow and onVisibleCol: on a visible position if there is one, and
\* where it was if there is none.
LEMMA OnVisibleType ==
    ASSUME NEW i \in Nat, NEW visible \in SUBSET Nat
    PROVE  /\ visible # {} => OnVisible(i, visible) \in visible
           /\ visible = {} => OnVisible(i, visible) = i
<1> DEFINE after == {j \in visible : j >= i}
           before == {j \in visible : j < i}
<1>1. OnVisible(i, visible) =
        IF after # {} THEN CHOOSE j \in after : \A k \in after : j <= k
        ELSE IF before # {} THEN CHOOSE j \in before : \A k \in before : j >= k
        ELSE i
    BY DEF OnVisible
<1>2. visible = after \cup before
    <2>1. \A j \in visible : j >= i \/ j < i
        OBVIOUS
    <2> QED
        BY <2>1
<1>3. after \in SUBSET Nat /\ before \in SUBSET Nat /\ \A j \in before : j < i
    OBVIOUS
<1> HIDE DEF after, before
<1>4. CASE after # {}
    <2>1. \E j \in after : \A k \in after : j <= k
        BY <1>3, <1>4, LeastIn
    <2>2. (CHOOSE j \in after : \A k \in after : j <= k) \in after
        BY <2>1
    <2> QED
        BY <1>1, <1>2, <1>4, <2>2
<1>5. CASE after = {} /\ before # {}
    <2>1. \E j \in before : \A k \in before : j >= k
        BY <1>3, <1>5, GreatestBelow
    <2>2. (CHOOSE j \in before : \A k \in before : j >= k) \in before
        BY <2>1
    <2> QED
        BY <1>1, <1>2, <1>5, <2>2
<1>6. CASE after = {} /\ before = {}
    BY <1>1, <1>2, <1>6
<1> QED
    BY <1>4, <1>5, <1>6

\* A position that is visible is the nearest to itself.
LEMMA StaysOnVisible ==
    ASSUME NEW i \in Nat, NEW visible \in SUBSET Nat, i \in visible
    PROVE  OnVisible(i, visible) = i
<1> DEFINE after == {j \in visible : j >= i}
<1>1. i \in after /\ \A k \in after : k \in Nat /\ i <= k
    OBVIOUS
<1>2. OnVisible(i, visible) = CHOOSE j \in after : \A k \in after : j <= k
    BY <1>1 DEF OnVisible
<1>3. \A j \in after : (\A k \in after : j <= k) => j = i
    BY <1>1
<1> HIDE DEF after
<1> DEFINE first == CHOOSE j \in after : \A k \in after : j <= k
<1>4. first \in after /\ \A k \in after : first <= k
    BY <1>1
<1>5. first = i
    BY <1>3, <1>4
<1> QED
    BY <1>2, <1>5

\* ToggleReveal: the cursor stays in the grid, where it is on what is revealed, and
\* on what re-hiding left.
LEMMA Reveals ==
    ASSUME TypeOK, row < Height(shown.doc), col < Width(shown.doc), ToggleReveal
    PROVE  /\ row' \in Nat /\ row' < Height(shown.doc)
           /\ col' \in Nat /\ col' < Width(shown.doc)
           /\ ~isRevealing' /\ ~(0..(Height(shown.doc) - 1) \subseteq HiddenRows(shown.doc))
                => row' \notin HiddenRows(shown.doc)
           /\ ~isRevealing' /\ ~(0..(Width(shown.doc) - 1) \subseteq HiddenCols(shown.doc))
                => col' \notin HiddenCols(shown.doc)
           /\ isRevealing' => row' = row
<1> DEFINE rows == {r \in 0..(Height(shown.doc) - 1) : ~HiddenRow(r, isRevealing')}
           cols == {c \in 0..(Width(shown.doc) - 1) : ~HiddenCol(c, isRevealing')}
<1>1. row' = OnVisible(row, rows) /\ col' = OnVisible(col, cols)
    BY DEF ToggleReveal
<1>2. /\ Height(shown.doc) \in Nat /\ Width(shown.doc) \in Nat
      /\ row \in Nat /\ col \in Nat
    BY GridType DEF TypeOK
<1>3. rows \in SUBSET Nat /\ cols \in SUBSET Nat
    BY <1>2
<1>4. row' \in rows \/ (rows = {} /\ row' = row)
    <2> HIDE DEF rows
    <2> QED
        BY <1>1, <1>2, <1>3, OnVisibleType
<1>5. col' \in cols \/ (cols = {} /\ col' = col)
    <2> HIDE DEF cols
    <2> QED
        BY <1>1, <1>2, <1>3, OnVisibleType
<1>6. row' \in Nat /\ row' < Height(shown.doc)
    BY <1>2, <1>4
<1>7. col' \in Nat /\ col' < Width(shown.doc)
    BY <1>2, <1>5
<1>8. ASSUME ~isRevealing', ~(0..(Height(shown.doc) - 1) \subseteq HiddenRows(shown.doc))
      PROVE  row' \notin HiddenRows(shown.doc)
    <2>1. rows # {}
        BY <1>8 DEF HiddenRow
    <2>2. row' \in rows
        BY <1>4, <2>1
    <2> QED
        BY <1>8, <2>2 DEF HiddenRow
<1>9. ASSUME ~isRevealing', ~(0..(Width(shown.doc) - 1) \subseteq HiddenCols(shown.doc))
      PROVE  col' \notin HiddenCols(shown.doc)
    <2>1. cols # {}
        BY <1>9 DEF HiddenCol
    <2>2. col' \in cols
        BY <1>5, <2>1
    <2> QED
        BY <1>9, <2>2 DEF HiddenCol
<1>10. ASSUME isRevealing' PROVE row' = row
    <2>1. row \in rows
        BY <1>2, <1>10 DEF HiddenRow
    <2> HIDE DEF rows
    <2> QED
        BY <1>1, <1>2, <1>3, <2>1, StaysOnVisible
<1> QED
    BY <1>6, <1>7, <1>8, <1>9, <1>10

\* Move: the cursor stays in the grid, and the window follows it.
LEMMA Moves ==
    ASSUME CursorInGrid, Move
    PROVE  /\ row' \in Nat /\ row' < Height(shown.doc)
           /\ col' \in Nat /\ col' < Width(shown.doc)
           /\ top' \in Nat /\ top' < Height(shown.doc)
           /\ top' <= row' /\ row' < top' + VisibleRows(shown.doc, viewHeight)
<1>1. /\ shown.doc \in Docs /\ row \in Nat /\ col \in Nat
      /\ row < Height(shown.doc) /\ col < Width(shown.doc)
    BY DEF CursorInGrid, TypeOK
<1>2. /\ Height(shown.doc) \in Nat /\ 1 <= Height(shown.doc)
      /\ Width(shown.doc) \in Nat /\ 1 <= Width(shown.doc)
    BY <1>1, GridType
<1>3. /\ row' \in Nat /\ row' < Height(shown.doc)
      /\ col' \in Nat /\ col' < Width(shown.doc)
    BY <1>1, <1>2 DEF Move, AtLeast, AtMost
<1>4. ScrollTo(row', viewHeight) /\ viewHeight \in Int /\ TypeOK
    BY HeightType DEF Move, CursorInGrid
<1>5. /\ top' \in Nat /\ top' < Height(shown.doc)
      /\ top' <= row' /\ row' < top' + VisibleRows(shown.doc, viewHeight)
    BY <1>3, <1>4, Scrolls
<1> QED
    BY <1>3, <1>5

\* Resize: the window keeps the cursor.
LEMMA Resizes ==
    ASSUME CursorInGrid, Resize
    PROVE  /\ viewHeight' \in Heights /\ viewHeight' \in Int
           /\ top' \in Nat /\ top' < Height(shown.doc)
           /\ top' <= row /\ row < top' + VisibleRows(shown.doc, viewHeight')
<1>1. TypeOK /\ row \in Nat /\ row < Height(shown.doc)
    BY DEF CursorInGrid, TypeOK
<1>2. viewHeight' \in Heights /\ viewHeight' \in Int /\ ScrollTo(row, viewHeight')
    BY EditorAssumption DEF Resize
<1>3. /\ top' \in Nat /\ top' < Height(shown.doc)
      /\ top' <= row /\ row < top' + VisibleRows(shown.doc, viewHeight')
    BY <1>1, <1>2, Scrolls
<1> QED
    BY <1>2, <1>3

\* The editor's invariant holds on the sheet as loaded.
LEMMA InitEditor == Init => IInv
<1> SUFFICES ASSUME Init PROVE IInv
    OBVIOUS
<1>1. InitialDoc \in Docs /\ HasCadence \in BOOLEAN
    BY EditorAssumption
<1>2. TypeOK
    BY <1>1 DEF Init, TypeOK
<1>3. 0 < Height(InitialDoc) /\ 0 < Width(InitialDoc)
    BY <1>1, GridType
<1>4. CursorInGrid
    BY <1>2, <1>3 DEF Init, CursorInGrid
<1>5. TickStaysArmed /\ ShownIsSession /\ CleanMeansSaved /\ WarnedOfAll
    BY <1>1 DEF Init, TickStaysArmed, ShownIsSession, CleanMeansSaved, WarnedOfAll
<1> QED
    BY <1>4, <1>5 DEF IInv

\* Every key, tick and resize keeps the types and the cursor in the grid.
LEMMA StepCursor == CursorInGrid /\ ShownIsSession /\ [Next]_vars => CursorInGrid'
<1> SUFFICES ASSUME CursorInGrid, ShownIsSession, [Next]_vars PROVE CursorInGrid'
    OBVIOUS
<1> USE DEF TypeOK, CursorInGrid, ShownIsSession, sessionVars, cursorVars, Snapshot,
        Navigating, Editing
<1>1. ASSUME Tick PROVE CursorInGrid'
    BY <1>1, EditorAssumption DEF Tick
<1>2. ASSUME Resize PROVE CursorInGrid'
    BY <1>2, Resizes DEF Resize
<1>3. ASSUME Move PROVE CursorInGrid'
    BY <1>3, Moves DEF Move
<1>4. ASSUME BeginEdit PROVE CursorInGrid'
    BY <1>4 DEF BeginEdit
<1>5. ASSUME CancelEdit PROVE CursorInGrid'
    BY <1>5 DEF CancelEdit
<1>6. ASSUME Commit PROVE CursorInGrid'
    <2>1. EditsTheGrid
        <3> HIDE DEF TypeOK, CursorInGrid, ShownIsSession
        <3> QED
            BY <1>6, EditingKeys
    <2>2. row \in Nat /\ row < Height(shown.doc) /\ col < Width(shown.doc) /\ top < Height(shown.doc)
        OBVIOUS
    <2>3. /\ Height(shown.doc) \in Nat /\ Height(shown'.doc) \in Nat
          /\ Width(shown.doc) \in Nat /\ Width(shown'.doc) \in Nat
        BY <2>1, GridType DEF EditsTheGrid
    <2>4. TypeOK'
        <3>1. {isRevealing, isConfirmingQuit, isQuitting, armed, unwarned}' \subseteq BOOLEAN
            BY <2>1, Zenon DEF EditsTheGrid
        <3>2. shown' \in [doc : Docs, isDirty : BOOLEAN]
            BY <2>1 DEF EditsTheGrid
        <3> QED
            BY <2>1, <3>1, <3>2 DEF EditsTheGrid
    <2>5. row' < Height(shown'.doc) /\ col' < Width(shown'.doc) /\ top' < Height(shown'.doc)
        BY <2>1, <2>2, <2>3 DEF EditsTheGrid
    <2> QED
        BY <2>4, <2>5
<1>7. ASSUME FillFrom PROVE CursorInGrid'
    <2>1. EditsTheGrid
        <3> HIDE DEF TypeOK, CursorInGrid, ShownIsSession
        <3> QED
            BY <1>7, EditingKeys
    <2>2. row \in Nat /\ row < Height(shown.doc) /\ col < Width(shown.doc) /\ top < Height(shown.doc)
        OBVIOUS
    <2>3. /\ Height(shown.doc) \in Nat /\ Height(shown'.doc) \in Nat
          /\ Width(shown.doc) \in Nat /\ Width(shown'.doc) \in Nat
        BY <2>1, GridType DEF EditsTheGrid
    <2>4. TypeOK'
        <3>1. {isRevealing, isConfirmingQuit, isQuitting, armed, unwarned}' \subseteq BOOLEAN
            BY <2>1, Zenon DEF EditsTheGrid
        <3>2. shown' \in [doc : Docs, isDirty : BOOLEAN]
            BY <2>1 DEF EditsTheGrid
        <3> QED
            BY <2>1, <3>1, <3>2 DEF EditsTheGrid
    <2>5. row' < Height(shown'.doc) /\ col' < Width(shown'.doc) /\ top' < Height(shown'.doc)
        BY <2>1, <2>2, <2>3 DEF EditsTheGrid
    <2> QED
        BY <2>4, <2>5
<1>8. ASSUME Duplicate PROVE CursorInGrid'
    <2>1. EditsTheGrid
        <3> HIDE DEF TypeOK, CursorInGrid, ShownIsSession
        <3> QED
            BY <1>8, EditingKeys
    <2>2. row \in Nat /\ row < Height(shown.doc) /\ col < Width(shown.doc) /\ top < Height(shown.doc)
        OBVIOUS
    <2>3. /\ Height(shown.doc) \in Nat /\ Height(shown'.doc) \in Nat
          /\ Width(shown.doc) \in Nat /\ Width(shown'.doc) \in Nat
        BY <2>1, GridType DEF EditsTheGrid
    <2>4. TypeOK'
        <3>1. {isRevealing, isConfirmingQuit, isQuitting, armed, unwarned}' \subseteq BOOLEAN
            BY <2>1, Zenon DEF EditsTheGrid
        <3>2. shown' \in [doc : Docs, isDirty : BOOLEAN]
            BY <2>1 DEF EditsTheGrid
        <3> QED
            BY <2>1, <3>1, <3>2 DEF EditsTheGrid
    <2>5. row' < Height(shown'.doc) /\ col' < Width(shown'.doc) /\ top' < Height(shown'.doc)
        BY <2>1, <2>2, <2>3 DEF EditsTheGrid
    <2> QED
        BY <2>4, <2>5
<1>9. ASSUME Save PROVE CursorInGrid'
    BY <1>9 DEF Save
<1>10. ASSUME RefreshImports PROVE CursorInGrid'
    BY <1>10 DEF RefreshImports
<1>11. ASSUME ToggleReveal PROVE CursorInGrid'
    BY <1>11, Reveals DEF ToggleReveal
<1>12. ASSUME WarnQuit PROVE CursorInGrid'
    BY <1>12 DEF WarnQuit
<1>13. ASSUME Quit PROVE CursorInGrid'
    BY <1>13 DEF Quit
<1>14. ASSUME OtherKey PROVE CursorInGrid'
    BY <1>14 DEF OtherKey
<1>15. CASE UNCHANGED vars
    BY <1>15 DEF vars
<1> QED
    BY <1>1, <1>2, <1>3, <1>4, <1>5, <1>6, <1>7, <1>8, <1>9, <1>10, <1>11, <1>12, <1>13,
       <1>14, <1>15
    DEF Next

SessionParts == TickStaysArmed /\ ShownIsSession /\ CleanMeansSaved /\ WarnedOfAll

\* Every key, tick and resize keeps the snapshot the session's.
LEMMA StepSession == IInv /\ [Next]_vars => SessionParts'
<1> SUFFICES ASSUME IInv, [Next]_vars PROVE SessionParts'
    OBVIOUS
<1> USE DEF SessionParts, IInv, TypeOK, TickStaysArmed, ShownIsSession, CleanMeansSaved,
        WarnedOfAll, sessionVars, cursorVars, Snapshot, Navigating, Editing
<1>1. ASSUME Tick PROVE SessionParts'
    BY <1>1 DEF Tick
<1>2. ASSUME Resize PROVE SessionParts'
    BY <1>2 DEF Resize
<1>3. ASSUME Move PROVE SessionParts'
    BY <1>3 DEF Move
<1>4. ASSUME BeginEdit PROVE SessionParts'
    BY <1>4 DEF BeginEdit
<1>5. ASSUME CancelEdit PROVE SessionParts'
    BY <1>5 DEF CancelEdit
<1>6. ASSUME Commit PROVE SessionParts'
    <2>1. EditsTheGrid
        <3> HIDE DEF TypeOK, ShownIsSession
        <3> QED
            BY <1>6, EditingKeys
    <2> QED
        BY <2>1 DEF EditsTheGrid
<1>7. ASSUME FillFrom PROVE SessionParts'
    <2>1. EditsTheGrid
        <3> HIDE DEF TypeOK, ShownIsSession
        <3> QED
            BY <1>7, EditingKeys
    <2> QED
        BY <2>1 DEF EditsTheGrid
<1>8. ASSUME Duplicate PROVE SessionParts'
    <2>1. EditsTheGrid
        <3> HIDE DEF TypeOK, ShownIsSession
        <3> QED
            BY <1>8, EditingKeys
    <2> QED
        BY <2>1 DEF EditsTheGrid
<1>9. ASSUME Save PROVE SessionParts'
    BY <1>9 DEF Save
<1>10. ASSUME RefreshImports PROVE SessionParts'
    BY <1>10 DEF RefreshImports
<1>11. ASSUME ToggleReveal PROVE SessionParts'
    BY <1>11 DEF ToggleReveal
<1>12. ASSUME WarnQuit PROVE SessionParts'
    BY <1>12 DEF WarnQuit
<1>13. ASSUME Quit PROVE SessionParts'
    BY <1>13 DEF Quit
<1>14. ASSUME OtherKey PROVE SessionParts'
    BY <1>14 DEF OtherKey
<1>15. CASE UNCHANGED vars
    BY <1>15 DEF vars
<1> QED
    BY <1>1, <1>2, <1>3, <1>4, <1>5, <1>6, <1>7, <1>8, <1>9, <1>10, <1>11, <1>12, <1>13,
       <1>14, <1>15
    DEF Next

LEMMA StepEditor == IInv /\ [Next]_vars => IInv'
BY StepCursor, StepSession DEF IInv, SessionParts

\* A quit is either of a clean sheet or the answer to a warning no edit followed.
LEMMA StepQuit ==
    IInv /\ [Next]_vars => (isQuitting' # isQuitting => ~(isDirty /\ unwarned))
BY DEF IInv, ShownIsSession, WarnedOfAll, vars, Next, Tick, Resize, Move, BeginEdit,
       CancelEdit, Commit, FillFrom, Duplicate, Save, RefreshImports, ToggleReveal,
       WarnQuit, Quit, OtherKey

\* The window, and the rows of it the terminal fits.
LEMMA InWindow ==
    CursorInGrid =>
        (row \in Window <=> top <= row /\ row < top + VisibleRows(shown.doc, viewHeight))
<1> SUFFICES ASSUME CursorInGrid
             PROVE  row \in Window
                        <=> top <= row /\ row < top + VisibleRows(shown.doc, viewHeight)
    OBVIOUS
<1> DEFINE H == Height(shown.doc)
           V == VisibleRows(shown.doc, viewHeight)
<1>1. shown.doc \in Docs /\ row \in Nat /\ top \in Nat /\ row < H
    BY DEF CursorInGrid, TypeOK
<1>2. H \in Nat /\ V \in Nat
    BY <1>1, GridType, VisibleType, HeightType DEF CursorInGrid
<1>3. Window = top..(AtMost(top + V, H) - 1)
    BY DEF Window
<1> HIDE DEF H, V
<1>4. row \in Window <=> top <= row /\ row < top + V
    BY <1>1, <1>2, <1>3 DEF AtMost
<1> QED
    BY <1>4 DEF V

\* A cursor inside the window is drawn, unless the sheet hides it.
LEMMA DrawnInWindow == CursorInGrid /\ row \in Window => Seen \/ Hidden
<1> SUFFICES ASSUME CursorInGrid, row \in Window, ~Hidden PROVE Seen
    OBVIOUS
<1>1. shown.doc \in Docs /\ col \in Nat /\ col < Width(shown.doc)
    BY DEF CursorInGrid, TypeOK
<1>2. col \in 0..(Width(shown.doc) - 1)
    BY <1>1, GridType
<1>3. ~HiddenRow(row, isRevealing) /\ ~HiddenCol(col, isRevealing)
    BY DEF Hidden
<1> QED
    BY <1>2, <1>3 DEF Seen, Drawn

\* A terminal fits no fewer rows of a grid that is no shorter.
LEMMA FitsNoFewer ==
    ASSUME NEW d \in Docs, NEW e \in Docs, NEW h \in Int, Height(d) <= Height(e)
    PROVE  VisibleRows(d, h) <= VisibleRows(e, h)
BY GridType DEF VisibleRows, AtLeast, chromeLines

\* A window that is not moved keeps the cursor in a grid that is no shorter.
LEMMA WindowKeeps ==
    ASSUME CursorInGrid, CursorInGrid', UNCHANGED <<row, top, viewHeight>>,
           Height(shown.doc) <= Height(shown'.doc), row \in Window
    PROVE  row' \in Window'
<1>1. /\ shown.doc \in Docs /\ shown'.doc \in Docs /\ viewHeight \in Int
      /\ row \in Nat /\ top \in Nat
    BY HeightType DEF CursorInGrid, TypeOK
<1>2. VisibleRows(shown.doc, viewHeight) <= VisibleRows(shown'.doc, viewHeight)
    BY <1>1, FitsNoFewer
<1>3. /\ VisibleRows(shown.doc, viewHeight) \in Nat
      /\ VisibleRows(shown'.doc, viewHeight) \in Nat
    BY <1>1, VisibleType
<1>4. top <= row /\ row < top + VisibleRows(shown.doc, viewHeight)
    BY InWindow
<1>5. (top <= row)' /\ (row < top + VisibleRows(shown.doc, viewHeight))'
    BY <1>1, <1>2, <1>3, <1>4
<1>6. CursorInGrid'
    OBVIOUS
<1>7. (row \in Window)'
    BY <1>5, <1>6, InWindow, PTL
<1> QED
    BY <1>7

\* Only re-hiding takes the cursor out of the window; a movement and a resize take
\* the window to it.
LEMMA StepSeen == IInv /\ [Next]_vars => FollowsCursor /\ LeavesByRehiding /\ NeverStrands
<1> SUFFICES ASSUME IInv, [Next]_vars
             PROVE  FollowsCursor /\ LeavesByRehiding /\ NeverStrands
    OBVIOUS
<1>1. TypeOK /\ CursorInGrid /\ ShownIsSession /\ IInv'
    BY StepEditor DEF IInv, CursorInGrid
<1>2. CursorInGrid'
    BY <1>1 DEF IInv
<1>3. ShownIsSession'
    BY <1>1 DEF IInv
<1>4. (top <= row)' /\ (row < top + VisibleRows(shown.doc, viewHeight))' => row' \in Window'
    <2>1. (top <= row)' /\ (row < top + VisibleRows(shown.doc, viewHeight))'
            => (row \in Window)'
        BY <1>2, InWindow, PTL
    <2> QED
        BY <2>1
<1>5. row' \in Window' => (Seen \/ Hidden)'
    <2>1. (row \in Window)' => (Seen \/ Hidden)'
        BY <1>2, DrawnInWindow, PTL
    <2> QED
        BY <2>1
<1>6. row \in Nat /\ shown.doc \in Docs /\ Height(shown.doc) \in Nat
    BY <1>1, GridType DEF TypeOK
<1>7. CASE Resize
    <2>1. /\ top' <= row' /\ row' < top' + VisibleRows(shown'.doc, viewHeight')
          /\ isRevealing' = isRevealing
        BY <1>1, <1>7, Resizes DEF Resize
    <2> QED
        BY <1>1, <1>4, <1>5, <2>1
        DEF FollowsCursor, LeavesByRehiding, NeverStrands, Rehides, TypeOK
<1>8. CASE Move
    <2>1. /\ top' <= row' /\ row' < top' + VisibleRows(shown'.doc, viewHeight')
          /\ isRevealing' = isRevealing
        BY <1>1, <1>8, Moves DEF Move
    <2> QED
        BY <1>1, <1>4, <1>5, <2>1
        DEF FollowsCursor, LeavesByRehiding, NeverStrands, Rehides, TypeOK
<1>9. CASE ToggleReveal
    <2>1. isRevealing' # isRevealing /\ UNCHANGED <<shown, top, viewHeight>>
        BY <1>1, <1>9, Zenon DEF ToggleReveal, TypeOK
    <2>2. row < Height(shown.doc) /\ col < Width(shown.doc)
        BY <1>1 DEF CursorInGrid
    <2>3. FollowsCursor /\ NeverStrands
        BY <1>1, <1>9, <2>1, <2>2, Reveals DEF FollowsCursor, NeverStrands, Rehides
    <2>4. isRevealing' => row' = row
        BY <1>1, <1>9, <2>2, Reveals
    <2>5. ~Rehides => isRevealing'
        <3>1. isRevealing \in BOOLEAN /\ isRevealing' \in BOOLEAN
            BY <1>1, <1>2 DEF CursorInGrid, TypeOK
        <3> QED
            BY <2>1, <3>1, Zenon DEF Rehides
    <2>6. ASSUME row \in Window, ~Rehides PROVE row' \in Window'
        BY <1>1, <1>2, <1>6, <2>1, <2>4, <2>5, <2>6, WindowKeeps
    <2> QED
        BY <2>3, <2>6 DEF LeavesByRehiding
<1>10. CASE Commit \/ FillFrom \/ Duplicate
    <2>1. /\ UNCHANGED <<row, col, top, viewHeight, isRevealing>>
          /\ Height(shown.doc) <= Height(shown'.doc)
        BY <1>1, <1>10, EditingKeys DEF EditsTheGrid
    <2>2. row \in Window => row' \in Window'
        BY <1>1, <1>2, <2>1, WindowKeeps
    <2> QED
        BY <2>1, <2>2 DEF FollowsCursor, LeavesByRehiding, NeverStrands, Rehides
<1>11. CASE \/ Tick \/ BeginEdit \/ CancelEdit \/ Save \/ RefreshImports
            \/ WarnQuit \/ Quit \/ OtherKey \/ UNCHANGED vars
    <2>1. UNCHANGED <<row, col, top, viewHeight, isRevealing, doc>>
        BY <1>11 DEF Tick, BeginEdit, CancelEdit, Save, RefreshImports, WarnQuit,
                     Quit, OtherKey, vars, cursorVars, sessionVars
    <2>2. shown'.doc = shown.doc
        BY <1>1, <1>3, <2>1 DEF ShownIsSession
    <2>3. row \in Window => row' \in Window'
        BY <1>1, <1>2, <1>6, <2>1, <2>2, WindowKeeps
    <2> QED
        BY <2>1, <2>3 DEF FollowsCursor, LeavesByRehiding, NeverStrands, Rehides
<1> QED
    BY <1>7, <1>8, <1>9, <1>10, <1>11 DEF Next

-----------------------------------------------------------------------------
\* The pager: Pager, from its open to the editor's start.

LEMMA PagerConstants ==
    /\ Rows \in Nat /\ MaxHeight \in Nat /\ MaxVersion \in Nat
    /\ None \notin Paging!Versions
    /\ \A u, v, w \in Paging!Versions :
        u <= v /\ v <= w /\ Stat[u] = Stat[w] => Stat[v] = Stat[u]
BY TerminalAssumption DEF Paging!PagerAssumption, Paging!StatMovesOn

LEMMA PagerWindow ==
    ASSUME NEW h \in 0..MaxHeight
    PROVE  /\ Paging!Visible(h) \in Nat /\ Paging!Bottom(h) \in Nat
           /\ \A t \in Int : Paging!Clamped(t, h) \in 0..Paging!Bottom(h)
<1>1. h \in Int
    BY PagerConstants
<1>2. Paging!Visible(h) \in Nat
    BY <1>1 DEF Paging!Visible, Paging!chrome
<1>3. Paging!Bottom(h) \in Nat
    BY <1>2, PagerConstants DEF Paging!Bottom
<1> QED
    BY <1>2, <1>3 DEF Paging!Clamped

\* The invariant holds before the file is opened.
LEMMA InitPager == Paging!Init => Paging!IInv
<1> SUFFICES ASSUME Paging!Init PROVE Paging!IInv
    OBVIOUS
<1>1. 0 \in 0..MaxHeight /\ Paging!Bottom(0) \in Nat
    BY PagerConstants, PagerWindow
<1>2. Paging!TypeOK
    BY <1>1, PagerConstants DEF Paging!Init, Paging!TypeOK, Paging!Versions
<1>3. Paging!ReadSinceTheOpen
    BY DEF Paging!Init, Paging!ReadSinceTheOpen, Paging!BeenRead
<1>4. /\ Paging!DriftStays /\ Paging!MixedOnlyUnderAWrite
      /\ Paging!CaughtByTheNextKey /\ Paging!RefusesWithCause
    BY DEF Paging!Init, Paging!DriftStays, Paging!MixedOnlyUnderAWrite,
       Paging!NeverRendersDrift,
           Paging!CaughtByTheNextKey, Paging!RefusesWithCause
<1> QED
    BY <1>2, <1>3, <1>4 DEF Paging!IInv

\* Every step keeps the types, and the window in the sheet.
LEMMA StepPagerTypes == Paging!IInv /\ Paging!Next => Paging!TypeOK'
<1> SUFFICES ASSUME Paging!IInv, Paging!Next PROVE Paging!TypeOK'
    OBVIOUS
<1> USE DEF Paging!IInv, Paging!TypeOK, Paging!Goto, Paging!Show, Paging!fileVars,
        Paging!openVars, Paging!fetchVars, Paging!shownVars
<1>1. CASE Paging!Open
    BY <1>1 DEF Paging!Open
<1>2. CASE Paging!StatOpened
    BY <1>2 DEF Paging!StatOpened
<1>3. CASE Paging!Scan
    BY <1>3 DEF Paging!Scan
<1>4. CASE Paging!Resize
    <2>1. firstRow \in Int /\ height \in 0..MaxHeight /\ Paging!Visible(height) \in Int
        BY PagerConstants, PagerWindow
    <2>2. PICK t \in Int, h \in 0..MaxHeight : Paging!Fetch(t, h)
        BY <1>4, <2>1, PagerConstants DEF Paging!Resize
    <2>3. Paging!Clamped(t, h) \in 0..Paging!Bottom(h)
        BY <2>2, PagerWindow
    <2> QED
        BY <2>2, <2>3 DEF Paging!Fetch
<1>5. CASE Paging!Key
    <2>1. firstRow \in Int /\ height \in 0..MaxHeight /\ Paging!Visible(height) \in Int
        BY PagerConstants, PagerWindow
    <2>2. PICK t \in Int, h \in 0..MaxHeight : Paging!Fetch(t, h)
        BY <1>5, <2>1, PagerConstants DEF Paging!Key
    <2>3. Paging!Clamped(t, h) \in 0..Paging!Bottom(h)
        BY <2>2, PagerWindow
    <2> QED
        BY <2>2, <2>3 DEF Paging!Fetch
<1>6. CASE Paging!Drift
    BY <1>6 DEF Paging!Drift, Paging!Refuse, Paging!Pass, Paging!Needed
<1>7. CASE Paging!StatFails
    BY <1>7 DEF Paging!StatFails, Paging!Refuse
<1>8. CASE Paging!ReadBlock
    BY <1>8 DEF Paging!ReadBlock
<1>9. CASE Paging!Computed
    BY <1>9 DEF Paging!Computed
<1>10. CASE Paging!Quit
    BY <1>10 DEF Paging!Quit
<1>11. CASE Paging!WriteInPlace
    BY <1>11, PagerConstants DEF Paging!WriteInPlace, Paging!Versions
<1>12. CASE Paging!RenameReplace
    BY <1>12 DEF Paging!RenameReplace
<1> QED
    BY <1>1, <1>2, <1>3, <1>4, <1>5, <1>6, <1>7, <1>8, <1>9, <1>10, <1>11, <1>12
    DEF Paging!Next, Paging!OpenWindowed

\* What was scanned, cached and computed was read since the open, so by now.
LEMMA StepReadSince == Paging!IInv /\ Paging!Next => Paging!ReadSinceTheOpen'
<1> SUFFICES ASSUME Paging!IInv, Paging!Next PROVE Paging!ReadSinceTheOpen'
    OBVIOUS
<1> USE DEF Paging!IInv, Paging!TypeOK, Paging!ReadSinceTheOpen, Paging!Goto, Paging!Show,
        Paging!fileVars, Paging!openVars, Paging!fetchVars, Paging!shownVars
<1>1. CASE Paging!Open
    <2>1. UNCHANGED <<uses, window, cache>>
        BY <1>1 DEF Paging!Open
    <2>2. Paging!BeenRead' = Paging!BeenRead
        BY <2>1 DEF Paging!BeenRead
    <2> QED
        BY <1>1, <2>2 DEF Paging!Open
<1>2. CASE Paging!StatOpened
    <2>1. census = None /\ Paging!BeenRead = {}
        BY <1>2 DEF Paging!StatOpened
    <2>2. Paging!BeenRead' = {}
        BY <1>2, <2>1 DEF Paging!StatOpened, Paging!BeenRead
    <2>3. inode \in Int /\ inode # None /\ (opened # None => opened <= inode)
        BY PagerConstants DEF Paging!Versions
    <2> HIDE DEF Paging!TypeOK
    <2> QED
        BY <1>2, <2>1, <2>2, <2>3 DEF Paging!StatOpened
<1>3. CASE Paging!Scan
    <2>1. census = None /\ Paging!BeenRead = {}
        BY <1>3 DEF Paging!Scan
    <2>2. Paging!BeenRead' = {}
        BY <1>3, <2>1 DEF Paging!Scan, Paging!BeenRead
    <2>3. inode \in Int /\ inode # None /\ (opened # None => opened <= inode)
        BY PagerConstants DEF Paging!Versions
    <2> HIDE DEF Paging!TypeOK
    <2> QED
        BY <1>3, <2>1, <2>2, <2>3 DEF Paging!Scan
<1>4. CASE Paging!Resize
    <2>1. Paging!BeenRead' = Paging!BeenRead
        BY <1>4 DEF Paging!BeenRead, Paging!Resize, Paging!Fetch
    <2> QED
        BY <1>4, <2>1 DEF Paging!Resize, Paging!Fetch
<1>5. CASE Paging!Key
    <2>1. Paging!BeenRead' = Paging!BeenRead
        BY <1>5 DEF Paging!BeenRead, Paging!Key, Paging!Fetch
    <2> QED
        BY <1>5, <2>1 DEF Paging!Key, Paging!Fetch
<1>6. CASE Paging!Drift
    <2>1. Paging!BeenRead' \subseteq Paging!BeenRead
        BY <1>6 DEF Paging!BeenRead, Paging!Drift, Paging!Refuse, Paging!Pass, Paging!Needed
    <2> QED
        BY <1>6, <2>1 DEF Paging!Drift, Paging!Refuse, Paging!Pass, Paging!Needed
<1>7. CASE Paging!StatFails
    <2>1. Paging!BeenRead' \subseteq Paging!BeenRead
        BY <1>7 DEF Paging!BeenRead, Paging!StatFails, Paging!Refuse
    <2> QED
        BY <1>7, <2>1 DEF Paging!StatFails, Paging!Refuse
<1>8. CASE Paging!ReadBlock
    <2>1. PICK b \in todo, v \in Paging!Versions :
            /\ v \in {cache[b], inode}
            /\ uses' = uses \cup {v} /\ cache' = [cache EXCEPT ![b] = v]
            /\ UNCHANGED <<inode, path, opened, census, pc, window, err, since>>
        BY <1>8 DEF Paging!ReadBlock
    <2>2. v \in Paging!BeenRead \cup {inode} /\ inode \in Int
        BY <2>1, PagerConstants DEF Paging!BeenRead, Paging!Versions
    <2>3. Paging!BeenRead' \subseteq Paging!BeenRead \cup {v}
        BY <2>1 DEF Paging!BeenRead
    <2>4. census # None /\ opened \in Int /\ opened <= inode
        BY <1>8, PagerConstants DEF Paging!ReadBlock, Paging!Versions
    <2> QED
        BY <2>1, <2>2, <2>3, <2>4
<1>9. CASE Paging!Computed
    <2>1. Paging!BeenRead' \subseteq Paging!BeenRead
        BY <1>9 DEF Paging!BeenRead, Paging!Computed
    <2> QED
        BY <1>9, <2>1 DEF Paging!Computed
<1>10. CASE Paging!Quit
    <2>1. UNCHANGED <<uses, window, cache>>
        BY <1>10 DEF Paging!Quit
    <2>2. Paging!BeenRead' = Paging!BeenRead
        BY <2>1 DEF Paging!BeenRead
    <2> QED
        BY <1>10, <2>2 DEF Paging!Quit
<1>11. CASE Paging!WriteInPlace
    <2>1. Paging!BeenRead' = Paging!BeenRead /\ inode' = inode + 1
        BY <1>11 DEF Paging!WriteInPlace, Paging!BeenRead
    <2>2. Paging!BeenRead \subseteq Paging!Versions
        BY DEF Paging!BeenRead
    <2>3. /\ inode \in Int
          /\ opened # None => opened \in Int
          /\ census # None => census \in Int
          /\ \A v \in Paging!BeenRead : v \in Int
        BY <2>2, PagerConstants DEF Paging!Versions
    <2>4. UNCHANGED <<opened, census, pc, window, err, since>>
        BY <1>11 DEF Paging!WriteInPlace
    <2> HIDE DEF Paging!TypeOK
    <2> QED
        BY <2>1, <2>3, <2>4
<1>12. CASE Paging!RenameReplace
    <2>1. UNCHANGED <<uses, window, cache>>
        BY <1>12 DEF Paging!RenameReplace
    <2>2. Paging!BeenRead' = Paging!BeenRead
        BY <2>1 DEF Paging!BeenRead
    <2> QED
        BY <1>12, <2>2 DEF Paging!RenameReplace
<1> QED
    BY <1>1, <1>2, <1>3, <1>4, <1>5, <1>6, <1>7, <1>8, <1>9, <1>10, <1>11, <1>12
    DEF Paging!Next, Paging!OpenWindowed

PagerParts == Paging!DriftStays /\ Paging!CaughtByTheNextKey /\ Paging!RefusesWithCause

\* A write that stat can see stays seen: the check lets one window by, the one that
\* was under way, and refuses the inode it holds for a write or a stat that failed.
LEMMA StepDrift == Paging!IInv /\ Paging!Next => PagerParts'
<1> SUFFICES ASSUME Paging!IInv, Paging!Next PROVE PagerParts'
    OBVIOUS
<1> USE DEF Paging!IInv, Paging!TypeOK, Paging!ReadSinceTheOpen, PagerParts,
        Paging!DriftStays, Paging!CaughtByTheNextKey, Paging!RefusesWithCause,
        Paging!AsOpened, Paging!Goto, Paging!Show, Paging!fileVars, Paging!openVars,
        Paging!fetchVars, Paging!shownVars
<1>1. CASE Paging!Open
    BY <1>1 DEF Paging!Open
<1>2. CASE Paging!StatOpened
    BY <1>2 DEF Paging!StatOpened
<1>3. CASE Paging!Scan
    BY <1>3 DEF Paging!Scan
<1>4. CASE Paging!Resize
    BY <1>4 DEF Paging!Resize, Paging!Fetch
<1>5. CASE Paging!Key
    BY <1>5 DEF Paging!Key, Paging!Fetch
<1>6. CASE Paging!Drift
    BY <1>6 DEF Paging!Drift, Paging!Refuse, Paging!Pass, Paging!Needed
<1>7. CASE Paging!StatFails
    BY <1>7 DEF Paging!StatFails, Paging!Refuse
<1>8. CASE Paging!ReadBlock
    BY <1>8 DEF Paging!ReadBlock
<1>9. CASE Paging!Computed
    BY <1>9 DEF Paging!Computed
<1>10. CASE Paging!Quit
    BY <1>10 DEF Paging!Quit
<1>11. CASE Paging!WriteInPlace
    <2>1. inode \in Paging!Versions /\ inode' \in Paging!Versions /\ inode <= inode'
        BY <1>11, PagerConstants DEF Paging!WriteInPlace, Paging!Versions
    <2>2. census # None => opened \in Paging!Versions /\ opened <= inode
        OBVIOUS
    <2>3. census # None /\ Stat[inode] # Stat[opened] => Stat[inode'] # Stat[opened]
        BY <2>1, <2>2, PagerConstants
    <2> QED
        BY <1>11, <2>3 DEF Paging!WriteInPlace
<1>12. CASE Paging!RenameReplace
    BY <1>12 DEF Paging!RenameReplace
<1> QED
    BY <1>1, <1>2, <1>3, <1>4, <1>5, <1>6, <1>7, <1>8, <1>9, <1>10, <1>11, <1>12
    DEF Paging!Next, Paging!OpenWindowed

\* A window whose inode stat still has as opened was read from that version only.
LEMMA StepMixed == Paging!IInv /\ Paging!Next => Paging!MixedOnlyUnderAWrite'
<1> SUFFICES ASSUME Paging!IInv, Paging!Next PROVE Paging!MixedOnlyUnderAWrite'
    OBVIOUS
<1> USE DEF Paging!IInv, Paging!TypeOK, Paging!ReadSinceTheOpen, Paging!MixedOnlyUnderAWrite,
        Paging!NeverRendersDrift, Paging!AsOpened, Paging!Goto, Paging!Show, Paging!fileVars,
        Paging!openVars, Paging!fetchVars, Paging!shownVars
<1>1. CASE Paging!Open
    BY <1>1 DEF Paging!Open
<1>2. CASE Paging!StatOpened
    <2>1. window' = {}
        BY <1>2 DEF Paging!StatOpened
    <2> QED
        BY <2>1
<1>3. CASE Paging!Scan
    <2>1. window' = {}
        BY <1>3 DEF Paging!Scan
    <2> QED
        BY <2>1
<1>4. CASE Paging!Resize
    BY <1>4 DEF Paging!Resize, Paging!Fetch
<1>5. CASE Paging!Key
    BY <1>5 DEF Paging!Key, Paging!Fetch
<1>6. CASE Paging!Drift
    BY <1>6 DEF Paging!Drift, Paging!Refuse, Paging!Pass, Paging!Needed
<1>7. CASE Paging!StatFails
    BY <1>7 DEF Paging!StatFails, Paging!Refuse
<1>8. CASE Paging!ReadBlock
    <2>1. UNCHANGED <<opened, census, window, since>>
        BY <1>8 DEF Paging!ReadBlock
    <2> HIDE DEF Paging!TypeOK, Paging!ReadSinceTheOpen
    <2> QED
        BY <2>1
<1>9. CASE Paging!Computed
    <2>1. CASE window' = {}
        BY <2>1
    <2>2. CASE window' = uses /\ Stat[inode] # Stat[opened]
        BY <1>9, <2>2 DEF Paging!Computed
    <2>3. CASE window' = uses /\ Stat[inode] = Stat[opened]
        <3>1. \A v \in uses \cup {census} : v \in Paging!Versions /\ opened <= v /\ v <= inode
            BY <1>9 DEF Paging!Computed, Paging!BeenRead
        <3>2. opened \in Paging!Versions /\ inode \in Paging!Versions
            BY <1>9 DEF Paging!Computed
        <3>3. \A v \in uses \cup {census} : Stat[v] = Stat[opened]
            BY <2>3, <3>1, <3>2, PagerConstants
        <3> QED
            BY <1>9, <2>3, <3>3 DEF Paging!Computed
    <2> QED
        BY <1>9, <2>1, <2>2, <2>3 DEF Paging!Computed
<1>10. CASE Paging!Quit
    BY <1>10 DEF Paging!Quit
<1>11. CASE Paging!WriteInPlace
    <2>1. UNCHANGED <<opened, census, window, since>>
        BY <1>11 DEF Paging!WriteInPlace
    <2> HIDE DEF Paging!TypeOK, Paging!ReadSinceTheOpen
    <2> QED
        BY <2>1
<1>12. CASE Paging!RenameReplace
    BY <1>12 DEF Paging!RenameReplace
<1> QED
    BY <1>1, <1>2, <1>3, <1>4, <1>5, <1>6, <1>7, <1>8, <1>9, <1>10, <1>11, <1>12
    DEF Paging!Next, Paging!OpenWindowed

LEMMA StepPager == Paging!IInv /\ Paging!Next => Paging!IInv'
BY StepPagerTypes, StepReadSince, StepDrift, StepMixed DEF Paging!IInv, PagerParts

-----------------------------------------------------------------------------
\* tsv tui: either of them runs, and leaves the other alone.

\* What the pager leaves behind when the editor takes over.
TerminalSafe == TerminalIInv /\ CaughtByTheNextKey /\ RefusesWithCause

LEMMA EditorUntouched == IInv /\ UNCHANGED vars => IInv'
BY StepEditor

\* The pager's invariant says nothing of which of its ends pc stands at.
LEMMA PagerUntouched ==
    ASSUME Paging!IInv, UNCHANGED pagerVars,
           pc' = pc \/ (pc = "editor" /\ pc' = "quit")
    PROVE  Paging!IInv'
<1> USE DEF pagerVars
<1>1. Paging!TypeOK'
    BY DEF Paging!IInv, Paging!TypeOK
<1>2. Paging!ReadSinceTheOpen'
    <2>1. Paging!BeenRead' = Paging!BeenRead
        BY DEF Paging!BeenRead
    <2> QED
        BY <2>1 DEF Paging!IInv, Paging!ReadSinceTheOpen
<1>3. Paging!DriftStays'
    BY DEF Paging!IInv, Paging!DriftStays, Paging!AsOpened
<1>4. Paging!MixedOnlyUnderAWrite'
    BY DEF Paging!IInv, Paging!MixedOnlyUnderAWrite, Paging!NeverRendersDrift, Paging!AsOpened
<1>5. Paging!CaughtByTheNextKey' /\ Paging!RefusesWithCause'
    BY DEF Paging!IInv, Paging!CaughtByTheNextKey, Paging!RefusesWithCause, Paging!AsOpened
<1> QED
    BY <1>1, <1>2, <1>3, <1>4, <1>5 DEF Paging!IInv

LEMMA CaughtAndRefused ==
    Paging!IInv => CaughtByTheNextKey /\ RefusesWithCause
BY DEF Paging!IInv, CaughtByTheNextKey, RefusesWithCause

LEMMA InitTerminal == TerminalInit => TerminalSafe
BY InitEditor, InitPager, CaughtAndRefused DEF TerminalInit, TerminalSafe, TerminalIInv

LEMMA StepTerminal == TerminalSafe /\ [TerminalNext]_allVars => TerminalSafe'
<1> SUFFICES ASSUME TerminalSafe, [TerminalNext]_allVars PROVE TerminalSafe'
    OBVIOUS
<1>1. IInv /\ (pc # "edit" => Paging!IInv) /\ CaughtByTheNextKey /\ RefusesWithCause
    BY DEF TerminalSafe, TerminalIInv
<1>2. Paging!IInv' => CaughtByTheNextKey' /\ RefusesWithCause'
    BY CaughtAndRefused, PTL
<1>3. CASE Page
    <2>1. IInv'
        BY <1>1, <1>3, EditorUntouched DEF Page
    <2>2. Paging!IInv'
        BY <1>1, <1>3, StepPager DEF Page
    <2> QED
        BY <1>2, <2>1, <2>2 DEF TerminalSafe, TerminalIInv
<1>4. CASE LoadEditable
    <2>1. IInv'
        BY <1>1, <1>4, EditorUntouched DEF LoadEditable
    <2>2. pc' # "edit" => Paging!IInv'
        BY <1>1, <1>4, PagerUntouched DEF LoadEditable
    <2>3. CaughtByTheNextKey' /\ RefusesWithCause'
        BY <1>1, <1>4
        DEF LoadEditable, pagerVars, CaughtByTheNextKey, RefusesWithCause,
            Paging!CaughtByTheNextKey, Paging!RefusesWithCause, Paging!AsOpened
    <2> QED
        BY <2>1, <2>2, <2>3 DEF TerminalSafe, TerminalIInv
<1>5. CASE Edit
    <2>1. IInv'
        BY <1>1, <1>5, StepEditor DEF Edit
    <2>2. pc' = "edit"
        BY <1>5 DEF Edit
    <2>3. CaughtByTheNextKey' /\ RefusesWithCause'
        BY <1>1, <1>5
        DEF Edit, pagerVars, CaughtByTheNextKey, RefusesWithCause,
            Paging!CaughtByTheNextKey, Paging!RefusesWithCause, Paging!AsOpened
    <2> QED
        BY <2>1, <2>2, <2>3 DEF TerminalSafe, TerminalIInv
<1>6. CASE UNCHANGED allVars
    <2>1. IInv'
        BY <1>1, <1>6, EditorUntouched DEF allVars
    <2>2. pc' # "edit" => Paging!IInv'
        BY <1>1, <1>6, PagerUntouched DEF allVars
    <2>3. CaughtByTheNextKey' /\ RefusesWithCause'
        BY <1>1, <1>6
        DEF allVars, pagerVars, CaughtByTheNextKey, RefusesWithCause,
            Paging!CaughtByTheNextKey, Paging!RefusesWithCause, Paging!AsOpened
    <2> QED
        BY <2>1, <2>2, <2>3 DEF TerminalSafe, TerminalIInv
<1> QED
    BY <1>3, <1>4, <1>5, <1>6 DEF TerminalNext

LEMMA Safe == TerminalSpec => []TerminalSafe
BY InitTerminal, StepTerminal, PTL DEF TerminalSpec

\* What the editor sees of a step of the program.
LEMMA EditorSteps == [TerminalNext]_allVars => [Next]_vars
BY DEF TerminalNext, Page, LoadEditable, Edit, allVars

\* The editor's cursor, tick and snapshot, and the pager's window, are in order
\* whatever is typed, resized, edited, written to the file or renamed over it.
THEOREM Invariance == TerminalSpec => []TerminalIInv
<1>1. TerminalSafe => TerminalIInv
    BY DEF TerminalSafe
<1> QED
    BY <1>1, Safe, PTL

\* "saved" in the title bar means the file is the sheet on screen.
THEOREM SavedIsTheFile == TerminalSpec => []CleanMeansSaved
<1>1. TerminalIInv => CleanMeansSaved
    BY DEF TerminalIInv, IInv
<1> QED
    BY <1>1, Invariance, PTL

\* Nobody quits on an edit made after the last warning.
THEOREM QuitsWarned == TerminalSpec => NoUnwarnedQuit
<1>1. TerminalIInv /\ [TerminalNext]_allVars
        => [isQuitting' # isQuitting => ~(isDirty /\ unwarned)]_vars
    BY EditorSteps, StepQuit DEF TerminalIInv
<1> QED
    BY <1>1, Invariance, PTL DEF TerminalSpec, NoUnwarnedQuit

\* The cursor leaves the window only as hidden rows are hidden again, whatever is
\* edited, and the next movement or resize brings the window to it, in sheets and
\* terminals of any size.
THEOREM CursorSeen == TerminalSpec => CursorStaysSeen
<1>1. TerminalIInv /\ [TerminalNext]_allVars
        => [FollowsCursor /\ LeavesByRehiding /\ NeverStrands]_vars
    BY EditorSteps, StepSeen DEF TerminalIInv
<1> QED
    BY <1>1, Invariance, PTL DEF TerminalSpec, CursorStaysSeen

\* One window, the one under way, is computed after a write that stat can see, for
\* a file of any length, in blocks of any size.
THEOREM WriteCaught == TerminalSpec => []CaughtByTheNextKey
<1>1. TerminalSafe => CaughtByTheNextKey
    BY DEF TerminalSafe
<1> QED
    BY <1>1, Safe, PTL

\* tsv tui says the file changed when the inode it holds was written, or could not
\* be stat'ed for the window asked for last: a file renamed over the path is neither.
THEOREM RefusalHasACause == TerminalSpec => []RefusesWithCause
<1>1. TerminalSafe => RefusesWithCause
    BY DEF TerminalSafe
<1> QED
    BY <1>1, Safe, PTL
=============================================================================
