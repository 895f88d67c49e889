------------------------------- MODULE Terminal -------------------------------
(***************************************************************************)
(* tsv tui: runTUI pages a sheet that openWindowed windows, and has any    *)
(* other loaded whole and edited.  The pager and the editor, each with its *)
(* variables, are one program: what one does leaves the other alone.       *)
(***************************************************************************)
EXTENDS Tui

CONSTANTS Rows, MaxHeight, BlockRows, MaxVersion, Stat, None \* Pager's

VARIABLES inode, path, pc, opened, census, firstRow, height, todo, uses, cache, window, err, cause, since

Paging == INSTANCE Pager WITH top <- firstRow

ASSUME TerminalAssumption == Paging!PagerAssumption

pagerVars == <<inode, path, opened, census, firstRow, height, todo, uses, cache, window, err, cause, since>>
allVars == <<vars, pc, pagerVars>>

TerminalInit == Init /\ Paging!Init

\* openWindowed, and the pager over what it windowed.
Page ==
    /\ pc # "edit"
    /\ Paging!Next
    /\ UNCHANGED vars

\* loadEditable, and the cadence of buildRefresh: either refuses, or the editor runs.
LoadEditable ==
    /\ pc = "editor"
    /\ pc' \in {"edit", "quit"}
    /\ UNCHANGED <<vars, pagerVars>>

Edit ==
    /\ pc = "edit"
    /\ Next
    /\ UNCHANGED <<pc, pagerVars>>

TerminalNext == Page \/ LoadEditable \/ Edit

TerminalSpec == TerminalInit /\ [][TerminalNext]_allVars
-----------------------------------------------------------------------------
\* The editor's cursor is in the grid and its tick armed; and until the editor is
\* started, a window of the pager no write came in under is all of the file opened.
TerminalIInv == IInv /\ (pc # "edit" => Paging!IInv)

\* In tsv tui a write that stat can see is caught by the next key: one window is
\* computed after it, and no other.
CaughtByTheNextKey == Paging!CaughtByTheNextKey

\* "the held descriptor sees no drift and paging continues on the opened
\* snapshot": tsv tui says the file changed when the inode it holds was written or
\* cannot be stat'ed, and not because another was renamed over the path.
RefusesWithCause == Paging!RefusesWithCause

\* "must refuse honestly, not render a mix of stale cache and live reads".
NeverRendersDrift == Paging!NeverRendersDrift
=============================================================================
