-------------------------------- MODULE Pager --------------------------------
(***************************************************************************)
(* The view-only pager over a file that stays on disk: the open with its   *)
(* stat and its one scan, the drift check before every window, the blocks  *)
(* a window is computed from, read live or taken from the block cache, and *)
(* the programs that write the file in place or rename another over it.    *)
(***************************************************************************)
EXTENDS Integers

CONSTANTS
    Rows,       \* SheetCensus.Rows, as scanned
    MaxHeight,  \* bound: terminal heights
    BlockRows,  \* rows to a block of the engine's cache (external)
    MaxVersion, \* bound: in-place writes to the file that was opened
    Stat,       \* Stat[v]: size and mtime of version v
    None

Versions == 0..MaxVersion

\* Writes do not undo what stat says: an mtime moves on, or a length that came
\* back within its granule was never different.  What is undone is not drift.
StatMovesOn ==
    \A u, v, w \in Versions : u <= v /\ v <= w /\ Stat[u] = Stat[w] => Stat[v] = Stat[u]

\* What is assumed of them, of whatever runs the pager.
PagerAssumption ==
    /\ {Rows, MaxHeight, MaxVersion} \subseteq Nat
    /\ BlockRows \in Nat \ {0}
    /\ None \notin Versions
    /\ DOMAIN Stat = Versions
    /\ StatMovesOn

VARIABLES
    inode,   \* the version the held descriptor reads
    path,    \* whether the path still names that inode
    pc,      \* where runTUI and the pager stand
    opened,  \* the version statSource saw at the open
    census,  \* the version scanned
    top, height,
    todo,    \* blocks the window under way has yet to read
    uses,    \* versions of those it has read
    cache,   \* the block cache, by version
    window,  \* versions the window on show is computed from; {} is a nil window
    err,     \* Pager.err
    cause,   \* the error it wraps: "stat" when the descriptor could not be stat'ed
    since    \* history: windows computed since a write that stat can see

fileVars == <<inode, path>>
openVars == <<opened, census>>
fetchVars == <<todo, uses, cache>>
shownVars == <<window, err, cause>>
vars == <<fileVars, openVars, pc, top, height, fetchVars, shownVars, since>>

Blocks == {r \div BlockRows : r \in 0..(Rows - 1)}
chrome == 2 \* pagerChrome

Visible(h) == IF h <= chrome THEN 1 ELSE h - chrome
Bottom(h) == IF Rows > Visible(h) THEN Rows - Visible(h) ELSE 0

Clamped(t, h) == IF t < 0 THEN 0 ELSE IF t > Bottom(h) THEN Bottom(h) ELSE t

TypeOK ==
    /\ inode \in Versions /\ path \in {"held", "replaced"}
    /\ pc \in {"open", "stat", "scan", "page", "drift", "compute", "quit", "editor"}
    /\ {opened, census} \subseteq Versions \cup {None}
    /\ height \in 0..MaxHeight
    /\ top \in 0..Bottom(height)
    /\ todo \subseteq Blocks /\ uses \subseteq Versions
    /\ cache \in [Blocks -> Versions \cup {None}]
    /\ window \subseteq Versions
    /\ err \in {"none", "changed", "compute"} /\ cause \in {"none", "stat"}
    /\ err # "none" => window = {}
    /\ since \in Nat

Init ==
    /\ inode = 0 /\ path = "held"
    /\ pc = "open"
    /\ opened = None /\ census = None
    /\ top = 0 /\ height = 0
    /\ todo = {} /\ uses = {}
    /\ cache = [b \in Blocks |-> None]
    /\ window = {} /\ err = "none" /\ cause = "none"
    /\ since = 0

Goto(from, to) == pc = from /\ pc' = to

\* os.Open; anything but an over-budget file is loadEditable's to load.
Open ==
    /\ \E to \in {"stat", "editor"} : Goto("open", to)
    /\ UNCHANGED <<fileVars, openVars, top, height, fetchVars, shownVars, since>>

StatOpened ==
    /\ \E to \in {"scan", "editor"} : Goto("stat", to)
    /\ opened' = inode
    /\ UNCHANGED <<fileVars, census, top, height, fetchVars, shownVars, since>>

\* OpenSheet, which windows only a document that is over budget.
Scan ==
    /\ \E to \in {"page", "editor"} : Goto("scan", to)
    /\ census' = inode
    /\ UNCHANGED <<fileVars, opened, top, height, fetchVars, shownVars, since>>

\* Mutated: the stat is taken with the scan done.
ScanFirst ==
    /\ Goto("stat", "scan")
    /\ census' = inode
    /\ UNCHANGED <<fileVars, opened, top, height, fetchVars, shownVars, since>>
StatLast ==
    /\ Goto("scan", "page")
    /\ opened' = inode
    /\ UNCHANGED <<fileVars, census, top, height, fetchVars, shownVars, since>>
OpenWindowedLate == Open \/ ScanFirst \/ StatLast

OpenWindowed == Open \/ StatOpened \/ Scan

\* fetched, its first half.
Fetch(t, h) ==
    /\ Goto("page", "drift")
    /\ top' = Clamped(t, h)
    /\ height' = h
    /\ UNCHANGED <<fileVars, openVars, fetchVars, shownVars, since>>

Resize == \E h \in 0..MaxHeight : Fetch(top, h)

Key ==
    \E t \in {top - 1, top + 1, top - Visible(height), top + Visible(height), 0, Rows - Visible(height)} :
        Fetch(t, height)

\* The blocks of the rows in view, and those its formulas read.
Needed(t, h) ==
    {needs \in SUBSET Blocks :
        {r \div BlockRows : r \in {q \in 0..(Rows - 1) : q >= t /\ q < t + Visible(h)}} \subseteq needs}

Show(w, e, c) == window' = w /\ err' = e /\ cause' = c

\* fetched: an error of the guard, always ErrSourceChanged, takes the window's place.
Refuse(c) ==
    /\ Goto("drift", "page")
    /\ Show({}, "changed", c)
    /\ UNCHANGED <<fileVars, openVars, top, height, fetchVars, since>>

Pass ==
    /\ Goto("drift", "compute")
    /\ todo' \in Needed(top, height)
    /\ uses' = {}
    /\ UNCHANGED <<fileVars, openVars, top, height, cache, shownVars, since>>

\* Mutated: the check stats the path, not the descriptor that is held.
DriftOfPath ==
    /\ pc = "drift"
    /\ IF path = "replaced" \/ Stat[inode] # Stat[opened] THEN Refuse("none") ELSE Pass

\* Mutated: a window that is up is taken for proof that nothing has changed.
DriftOnce ==
    /\ pc = "drift"
    /\ IF window = {} /\ Stat[inode] # Stat[opened] THEN Refuse("none") ELSE Pass

Drift ==
    /\ pc = "drift"
    /\ IF Stat[inode] # Stat[opened] THEN Refuse("none") ELSE Pass

\* The descriptor cannot be stat'ed: the guard refuses as it does of drift, and
\* wraps the error of stat.
StatFails == Refuse("stat")

\* ComputeRows: a block comes out of the cache, or off the disk as it is now.
ReadBlock ==
    /\ pc = "compute"
    /\ \E b \in todo, v \in Versions :
        /\ v \in {cache[b], inode}
        /\ todo' = todo \ {b}
        /\ uses' = uses \cup {v}
        /\ cache' = [cache EXCEPT ![b] = v]
    /\ UNCHANGED <<fileVars, openVars, pc, top, height, shownVars, since>>

\* A window, or what kept the engine from computing one.
Computed ==
    /\ todo = {}
    /\ Goto("compute", "page")
    /\ Show(uses, "none", "none") \/ Show({}, "compute", "none")
    /\ since' = IF Stat[inode] # Stat[opened] THEN since + 1 ELSE since
    /\ UNCHANGED <<fileVars, openVars, top, height, fetchVars>>

Quit ==
    /\ Goto("page", "quit")
    /\ UNCHANGED <<fileVars, openVars, top, height, fetchVars, shownVars, since>>

\* Another program truncates the file, appends to it or rewrites it in place.
WriteInPlace ==
    /\ path = "held"
    /\ inode < MaxVersion
    /\ inode' = inode + 1
    /\ UNCHANGED <<path, openVars, pc, top, height, fetchVars, shownVars, since>>

\* A save, ours or an editor's, renames a new file over the path.
RenameReplace ==
    /\ pc # "open"
    /\ path' = "replaced"
    /\ UNCHANGED <<inode, openVars, pc, top, height, fetchVars, shownVars, since>>

Next ==
    \/ OpenWindowed
    \/ Resize \/ Key \/ Drift \/ StatFails \/ ReadBlock \/ Computed \/ Quit
    \/ WriteInPlace \/ RenameReplace

Spec == Init /\ [][Next]_vars
-----------------------------------------------------------------------------
AsOpened(v) == Stat[v] = Stat[opened]

\* "must refuse honestly, not render a mix of stale cache and live reads under a
\* stale census": what is on show was read from the file as it was opened.
NeverRendersDrift == window # {} => \A v \in window \cup {census} : AsOpened(v)

\* What does hold of it: a window no write came in under is all of the file as
\* opened, its census too, whatever the block cache was filled with before.
MixedOnlyUnderAWrite == since = 0 => NeverRendersDrift

\* A write that stat can see is caught by the next key: one window, the one under
\* way when it came, is computed after it, and no other.
CaughtByTheNextKey == since <= 1

\* "the held descriptor sees no drift and paging continues on the opened
\* snapshot": a pager that says the file changed holds an inode that was written,
\* or could not stat it the last time it was asked for a window, in which case it
\* refuses "rather than guessing the source is intact" and has no window on show.
\* A file renamed over the path is neither.
RefusesWithCause ==
    /\ err = "changed" => cause = "stat" \/ ~AsOpened(inode)
    /\ cause = "stat" => err = "changed" /\ window = {}

\* The versions that blocks were read in, the window's and the cache's.
BeenRead == uses \cup window \cup ({cache[b] : b \in Blocks} \ {None})

\* What makes it so.  What was scanned, cached and computed was read since the
\* stat of the open, and a pager pages what it has scanned.
ReadSinceTheOpen ==
    /\ opened # None => opened <= inode
    /\ census # None => opened # None /\ opened <= census /\ census <= inode
    /\ pc \in {"open", "stat", "scan"} => census = None
    /\ pc = "scan" => opened # None
    /\ pc \in {"page", "drift", "compute"} => census # None
    /\ census = None => window = {} /\ err = "none" /\ since = 0
    /\ \A v \in BeenRead : census # None /\ opened <= v /\ v <= inode

\* Once a window was computed after a write, the check lets no other by.
DriftStays == since > 0 => ~AsOpened(inode) /\ pc # "compute"

IInv ==
    /\ TypeOK /\ ReadSinceTheOpen /\ DriftStays
    /\ MixedOnlyUnderAWrite /\ CaughtByTheNextKey /\ RefusesWithCause
=============================================================================
