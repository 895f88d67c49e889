--------------------------------- MODULE Tui ---------------------------------
(***************************************************************************)
(* internal/tui: the terminal editor.  One update loop owns the model, so  *)
(* a message is one step; what can go wrong is the sequence of messages:   *)
(* ticks, resizes and keys in any order, in two modes, over a sheet whose  *)
(* shape and hidden rows change under the cursor as it is edited.          *)
(*                                                                         *)
(* The session's passes are left out: a pass never changes the grid's      *)
(* shape.  A save is AtomicReplace's, with nobody to race it.  The engine  *)
(* is external: Apply, and the extent and `#.hide` view of a document.     *)
(***************************************************************************)
EXTENDS Integers

CONSTANTS
    Docs, InitialDoc,
    CellEdits,            \* [at : <<row, col>>, text : ...]
    Apply(_, _), Rejected,
    Fill(_, _),           \* Fill(from, to): the fill edit
    DuplicateRow(_), DuplicateCol(_),
    RowsOf(_), ColsOf(_), \* the extent of a document's grid
    HiddenRows(_), HiddenCols(_), \* 0-based positions its view hides
    Heights,              \* the terminal heights a resize reports
    HasCadence            \* refresh # nil, and it never runs out

VARIABLES
    doc, isDirty, \* the session
    file,         \* the sheet file
    shown,        \* Model.state: the last snapshot the model took
    row, col,     \* the cursor
    top,          \* the first grid row on screen
    viewHeight,   \* the terminal's height, 0 until the first resize
    mode,
    isRevealing,
    isConfirmingQuit,
    isQuitting,
    armed,        \* a tick is scheduled
    unwarned      \* history: an edit was made since the last quit warning

sessionVars == <<doc, isDirty, file>>
cursorVars == <<row, col, top>>
vars == <<sessionVars, shown, cursorVars, viewHeight, mode, isRevealing,
          isConfirmingQuit, isQuitting, armed, unwarned>>

AtLeast(n, low) == IF n < low THEN low ELSE n
AtMost(n, high) == IF n > high THEN high ELSE n

\* width and height: at least one, so the cursor always has a cell.
Height(d) == AtLeast(RowsOf(d), 1)
Width(d) == AtLeast(ColsOf(d), 1)

\* The edits the editor asks for with its cursor on a cell of d.
EditsOf(d) ==
    LET rows == 0..(Height(d) - 1)
        cols == 0..(Width(d) - 1)
    IN  CellEdits \cup {Fill(from, to) : from, to \in rows \X cols}
            \cup {DuplicateRow(r) : r \in rows} \cup {DuplicateCol(c) : c \in cols}

\* None of them takes a row or a column away (the engine, external): the editor
\* counts on it when it leaves the cursor where it was.
ASSUME EditorAssumption ==
    /\ InitialDoc \in Docs
    /\ \A d \in Docs : RowsOf(d) \in Nat /\ ColsOf(d) \in Nat
    /\ \A d \in Docs : \A e \in EditsOf(d) :
        Apply(d, e) # Rejected =>
            /\ Apply(d, e) \in Docs
            /\ RowsOf(d) <= RowsOf(Apply(d, e)) /\ ColsOf(d) <= ColsOf(Apply(d, e))
    /\ Heights \subseteq Int
    /\ HasCadence \in BOOLEAN

chromeLines == 6

\* visibleRows: the rows the terminal fits, all of them before a resize.
VisibleRows(d, h) == IF h <= 0 THEN Height(d) ELSE AtLeast(h - chromeLines, 1)

TypeOK ==
    /\ doc \in Docs /\ file \in Docs
    /\ isDirty \in BOOLEAN
    /\ shown \in [doc : Docs, isDirty : BOOLEAN]
    /\ row \in Nat /\ col \in Nat /\ top \in Nat
    /\ viewHeight \in Heights \cup {0}
    /\ mode \in {"nav", "edit"}
    /\ {isRevealing, isConfirmingQuit, isQuitting, armed, unwarned} \subseteq BOOLEAN

Init ==
    /\ doc = InitialDoc /\ file = InitialDoc
    /\ isDirty = FALSE
    /\ shown = [doc |-> doc, isDirty |-> isDirty]
    /\ row = 0 /\ col = 0 /\ top = 0
    /\ viewHeight = 0
    /\ mode = "nav"
    /\ isRevealing = FALSE
    /\ isConfirmingQuit = FALSE
    /\ isQuitting = FALSE
    /\ armed = HasCadence
    /\ unwarned = FALSE

\* session.Snapshot() after the step's session call.
Snapshot == shown' = [doc |-> doc', isDirty |-> isDirty']

Navigating == ~isQuitting /\ mode = "nav"
Editing == ~isQuitting /\ mode = "edit"

\* Mutated: a window scrolled one row short.
ScrollShort(r, h) ==
    LET vis == VisibleRows(shown.doc, h)
        follow == IF r < top THEN r
                  ELSE IF r >= top + vis THEN r - vis
                  ELSE top
    IN  top' = AtLeast(AtMost(follow, Height(shown.doc) - vis), 0)

\* scrollToCursor for a cursor on row r: bring it into the window, then clamp
\* the window to the grid (clampTop).
ScrollTo(r, h) ==
    LET vis == VisibleRows(shown.doc, h)
        follow == IF r < top THEN r
                  ELSE IF r >= top + vis THEN r - vis + 1
                  ELSE top
    IN  top' = AtLeast(AtMost(follow, Height(shown.doc) - vis), 0)

\* Mutated: a tick in edit mode is dropped.
TickDropped ==
    /\ ~isQuitting
    /\ armed
    /\ armed' = (HasCadence /\ mode = "nav")
    /\ UNCHANGED sessionVars
    /\ IF mode = "nav" THEN Snapshot ELSE UNCHANGED shown
    /\ UNCHANGED <<cursorVars, viewHeight, mode, isRevealing, isConfirmingQuit,
                   isQuitting, unwarned>>

\* tickMsg: recompute unless mid-edit, and re-arm either way.
Tick ==
    /\ ~isQuitting
    /\ armed
    /\ armed' = HasCadence
    /\ UNCHANGED sessionVars
    /\ IF mode = "nav" THEN Snapshot ELSE UNCHANGED shown
    /\ UNCHANGED <<cursorVars, viewHeight, mode, isRevealing, isConfirmingQuit,
                   isQuitting, unwarned>>

\* tea.WindowSizeMsg, in either mode.
Resize ==
    /\ ~isQuitting
    /\ viewHeight' \in Heights
    /\ ScrollTo(row, viewHeight')
    /\ UNCHANGED <<sessionVars, shown, row, col, mode, isRevealing,
                   isConfirmingQuit, isQuitting, armed, unwarned>>

\* Mutated: a cursor that may step one past the last row.
MovePastEnd ==
    /\ Navigating
    /\ row' \in {AtLeast(row - 1, 0), AtMost(row + 1, Height(shown.doc))}
    /\ UNCHANGED col
    /\ isConfirmingQuit' = FALSE
    /\ ScrollTo(row', viewHeight)
    /\ UNCHANGED <<sessionVars, shown, viewHeight, mode, isRevealing,
                   isQuitting, armed, unwarned>>

\* move: clampDown and clampUp, one axis at a time.
Move ==
    /\ Navigating
    /\ \/ /\ row' \in {AtLeast(row - 1, 0), AtMost(row + 1, Height(shown.doc) - 1)}
          /\ UNCHANGED col
       \/ /\ col' \in {AtLeast(col - 1, 0), AtMost(col + 1, Width(shown.doc) - 1)}
          /\ UNCHANGED row
    /\ isConfirmingQuit' = FALSE
    /\ ScrollTo(row', viewHeight)
    /\ UNCHANGED <<sessionVars, shown, viewHeight, mode, isRevealing,
                   isQuitting, armed, unwarned>>

\* enter, i
BeginEdit ==
    /\ Navigating
    /\ mode' = "edit"
    /\ isConfirmingQuit' = FALSE
    /\ UNCHANGED <<sessionVars, shown, cursorVars, viewHeight, isRevealing,
                   isQuitting, armed, unwarned>>

\* toNav: esc drops the buffer.
CancelEdit ==
    /\ Editing
    /\ mode' = "nav"
    /\ isConfirmingQuit' = FALSE
    /\ UNCHANGED <<sessionVars, shown, cursorVars, viewHeight, isRevealing,
                   isQuitting, armed, unwarned>>

\* Mutated: an edit leaves a pending confirmation standing.
EditedKeepsConfirm(e) ==
    /\ Apply(doc, e) # Rejected
    /\ doc' = Apply(doc, e)
    /\ isDirty' = TRUE
    /\ UNCHANGED file
    /\ unwarned' = TRUE
    /\ Snapshot
    /\ UNCHANGED isConfirmingQuit

\* A session edit that takes: it marks the session dirty.
Edited(e) ==
    /\ Apply(doc, e) # Rejected
    /\ doc' = Apply(doc, e)
    /\ isDirty' = TRUE
    /\ UNCHANGED file
    /\ unwarned' = TRUE
    /\ Snapshot
    /\ isConfirmingQuit' = FALSE

\* commit; a malformed formula keeps the model as it is, in edit mode.
Commit ==
    /\ Editing
    /\ \E e \in CellEdits : e.at = <<row, col>> /\ Edited(e)
    /\ mode' = "nav"
    /\ UNCHANGED <<cursorVars, viewHeight, isRevealing, isQuitting, armed>>

\* ctrl+d, ctrl+r: with no neighbour to copy, the key does nothing.
FillFrom ==
    /\ Navigating
    /\ \E from \in {<<row - 1, col>>, <<row, col - 1>>} :
        /\ from[1] >= 0 /\ from[2] >= 0
        /\ Edited(Fill(from, <<row, col>>))
    /\ UNCHANGED <<cursorVars, viewHeight, mode, isRevealing, isQuitting, armed>>

\* D, C
Duplicate ==
    /\ Navigating
    /\ Edited(DuplicateRow(row)) \/ Edited(DuplicateCol(col))
    /\ UNCHANGED <<cursorVars, viewHeight, mode, isRevealing, isQuitting, armed>>

\* Mutated: the error of the save is not looked at.
SaveUnchecked ==
    /\ Navigating
    /\ file' \in {doc, file}
    /\ isDirty' = FALSE
    /\ UNCHANGED doc
    /\ Snapshot
    /\ isConfirmingQuit' = FALSE
    /\ UNCHANGED <<cursorVars, viewHeight, mode, isRevealing, isQuitting,
                   armed, unwarned>>

\* doSave: the file, then MarkSaved; an error leaves everything as it was.
Save ==
    /\ Navigating
    /\ file' = doc
    /\ isDirty' = FALSE
    /\ UNCHANGED doc
    /\ Snapshot
    /\ isConfirmingQuit' = FALSE
    /\ UNCHANGED <<cursorVars, viewHeight, mode, isRevealing, isQuitting,
                   armed, unwarned>>

\* R
RefreshImports ==
    /\ Navigating
    /\ UNCHANGED sessionVars
    /\ Snapshot
    /\ isConfirmingQuit' = FALSE
    /\ UNCHANGED <<cursorVars, viewHeight, mode, isRevealing, isQuitting,
                   armed, unwarned>>

HiddenRow(r, reveals) == ~reveals /\ r \in HiddenRows(shown.doc)
HiddenCol(c, reveals) == ~reveals /\ c \in HiddenCols(shown.doc)

\* onVisibleRow and onVisibleCol: the nearest visible position at or after i,
\* else the nearest before it, else i.
OnVisible(i, visible) ==
    LET after == {j \in visible : j >= i}
        before == {j \in visible : j < i}
    IN  IF after # {} THEN CHOOSE j \in after : \A k \in after : j <= k
        ELSE IF before # {} THEN CHOOSE j \in before : \A k \in before : j >= k
        ELSE i

\* visibleBounds: the rows of the grid the window is over, hidden ones included.
Window == top..(AtMost(top + VisibleRows(shown.doc, viewHeight), Height(shown.doc)) - 1)

\* The cells that grid and gridRow draw: those visibleCols has, of the rows not hidden.
Drawn ==
    {r \in Window : ~HiddenRow(r, isRevealing)} \X
    {c \in 0..(Width(shown.doc) - 1) : ~HiddenCol(c, isRevealing)}

\* v, on a sheet that hides something.  The window does not move.
ToggleReveal ==
    /\ Navigating
    /\ HiddenRows(shown.doc) \cup HiddenCols(shown.doc) # {}
    /\ isRevealing' = ~isRevealing
    /\ row' = OnVisible(row, {r \in 0..(Height(shown.doc) - 1) : ~HiddenRow(r, isRevealing')})
    /\ col' = OnVisible(col, {c \in 0..(Width(shown.doc) - 1) : ~HiddenCol(c, isRevealing')})
    /\ UNCHANGED <<sessionVars, shown, top, viewHeight, mode, isConfirmingQuit,
                   isQuitting, armed, unwarned>>

\* quit: a first q warns of unsaved changes, a second one leaves.
WarnQuit ==
    /\ Navigating
    /\ shown.isDirty /\ ~isConfirmingQuit
    /\ isConfirmingQuit' = TRUE
    /\ unwarned' = FALSE
    /\ UNCHANGED <<sessionVars, shown, cursorVars, viewHeight, mode,
                   isRevealing, isQuitting, armed>>

Quit ==
    /\ Navigating
    /\ ~shown.isDirty \/ isConfirmingQuit
    /\ isQuitting' = TRUE
    /\ UNCHANGED <<sessionVars, shown, cursorVars, viewHeight, mode,
                   isRevealing, isConfirmingQuit, armed, unwarned>>

\* Any other key drops the pending confirmation.
OtherKey ==
    /\ Navigating
    /\ isConfirmingQuit' = FALSE
    /\ UNCHANGED <<sessionVars, shown, cursorVars, viewHeight, mode,
                   isRevealing, isQuitting, armed, unwarned>>

Next ==
    \/ Tick
    \/ Resize
    \/ Move
    \/ BeginEdit
    \/ CancelEdit
    \/ Commit
    \/ FillFrom
    \/ Duplicate
    \/ Save
    \/ RefreshImports
    \/ ToggleReveal
    \/ WarnQuit
    \/ Quit
    \/ OtherKey

Spec == Init /\ [][Next]_vars
-----------------------------------------------------------------------------
\* The cursor is on a cell of the grid shown, and the window starts inside it,
\* whatever was duplicated, committed, resized or revealed: commit, fill and
\* duplicate address the session with the cursor as it stands.
CursorInGrid ==
    /\ TypeOK
    /\ row < Height(shown.doc)
    /\ col < Width(shown.doc)
    /\ top < Height(shown.doc)

\* "saved" in the title bar means the file is the sheet being edited, and the one
\* on screen: no key edits or saves without taking the new state with it.
CleanMeansSaved == ~shown.isDirty => file = shown.doc /\ file = doc

\* "quit exits, warning once when there are unsaved changes": nobody leaves an
\* edit behind that was made after the last warning.
NoUnwarnedQuit == [][isQuitting' # isQuitting => ~(isDirty /\ unwarned)]_vars

\* "the tick re-arms itself": an edit in progress, a resize or a save never
\* ends the refresh of volatile cells.
TickStaysArmed == HasCadence => armed

\* What makes it so: every edit and save takes the new state with it, and a
\* confirmation is not left pending by an edit.
ShownIsSession == shown = [doc |-> doc, isDirty |-> isDirty]
WarnedOfAll == isConfirmingQuit => ~unwarned

IInv == CursorInGrid /\ TickStaysArmed /\ ShownIsSession /\ CleanMeansSaved /\ WarnedOfAll

Hidden == HiddenRow(row, isRevealing) \/ HiddenCol(col, isRevealing)

Seen == <<row, col>> \in Drawn

Rehides == isRevealing /\ ~isRevealing'

\* "scrollToCursor adjusts the vertical scroll so the cursor row stays on screen":
\* a movement or a resize leaves the cursor drawn, wherever it was, unless it is on
\* what the sheet hides.
FollowsCursor ==
    (<<row, col>>' # <<row, col>> /\ isRevealing' = isRevealing) \/ viewHeight' # viewHeight
        => (Seen \/ Hidden)'

\* What leaves the window where it is, an edit that adds rows, a reveal, a tick,
\* keeps the cursor in it; re-hiding may not.
LeavesByRehiding == row \in Window => Rehides \/ row' \in Window'

\* onVisibleRow: "re-hiding never strands the cursor on a row that just
\* disappeared", nor on a column, so long as anything is left to show.  Whether
\* the window is over that row is not promised here.
NeverStrands ==
    Rehides =>
        /\ ~(0..(Height(shown.doc) - 1) \subseteq HiddenRows(shown.doc))
                => row' \notin HiddenRows(shown.doc)
        /\ ~(0..(Width(shown.doc) - 1) \subseteq HiddenCols(shown.doc))
                => col' \notin HiddenCols(shown.doc)

\* The cursor leaves the window only as hidden rows are hidden again, which may
\* put it on a row the window is not over; the next movement or resize brings the
\* window there.
CursorStaysSeen == [][FollowsCursor /\ LeavesByRehiding /\ NeverStrands]_vars

\* toggleReveal: "the cursor is pulled back onto a row that is actually rendered";
\* grid: "scrolled vertically to keep the cursor on screen".
CursorStaysOnScreen == Seen \/ Hidden

\* "the cursor highlight": no key leaves the cursor on what is hidden.
CursorSkipsHidden == ~Hidden
=============================================================================
