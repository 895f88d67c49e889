# tsvsheet.go: a verification project

TLA+ models of the `tsv` command of this repository, TLC configurations that
check them on small instances, and proofs, checked by TLAPS, of nearly all their
safety properties for instances of any size.

    tlc -workers 2 -config MCServe.cfg MCServe     # one run
    tlapm ServeProofs.tla                          # one module of proofs

`PROJECT.json` is the index: the components, the runs, the source lines behind
each definition, the hazards, and for every checked property a *mutant*, a bug
that could have been written in that code and that makes TLC find the property
violated.

## 1. The system

`tsv` edits, computes and serves spreadsheets kept in tab-separated files. The
language and its evaluation are the library `go-tsvsheet`, which is not in this
repository; this repository is everything around it.

| part | source (under `src/internal`) | its state | its operations |
|---|---|---|---|
| session | `session/` | document, computed grid, tick ordinal, dirty flag, one mutex | edits, recompute, refresh of imports, reads, MarkSaved |
| serve | `serve/*.go` | none of its own; a session, a saver, a cadence | one HTTP handler per operation, a goroutine per request |
| page | `serve/web/index.html` | the State last shown, the selection, the formula bar, cell editors, a one-shot timer | select, edit, structure, save, answers shown as they arrive, auto-refresh |
| atomic save | `cli/save.go`, `cli/saver.go` | the sheet's directory, a counter of staging names | stage, write, rename, clean up |
| import cache | `importer/cache.go` | (url, accept) to body | Fetch through the cache, Clear |
| import fetcher | `importer/` (the rest) | none after New | resolve, authorize, send, follow redirects, read under a cap |
| refresh cadence | `refresh/`, `cli/serve_run.go` | none: a function of the time | build from flag or schedules, soonest next instant |
| bounded reading | `cli/sources.go`, `loader/` | what is buffered, a census | count cells before and while buffering, refuse |
| sheet loader | `loader/`, `cli/loader.go` | none: a root directory | resolve a reference against the sheet that makes it, confine it, name what it loads |
| terminal editor | `tui/` | session, cursor, scroll, modes, tick | one message at a time |
| terminal pager | `tui/pager.go`, `cli/drift.go`, `cli/tui_run.go` | an open file, its stat and census, a block cache | check for drift, compute a window |
| apply | `cli/apply.go` | none kept | read, check the base revision, fold, save, print |
| data server | `dataserve/`, `cli/data.go` | a listener, a goroutine that serves it | Start, answer a request with a file of the directory, Close |
| one-shot commands | `cli/check.go`, `render.go`, `parse.go`, `explain.go`, `eval.go`, `view.go`, `format.go` | none kept | read, compute, project, print, exit with the severest outcome |

They meet in six places, and these are where it is hard:

- **the session's mutex.** A request's handler calls session methods one after
  the other. Each is atomic; the handler is not (`server.go:136-161`).
- **the sheet's file.** serve's save, apply, and whatever else is running replace
  it; the pager and the readers have it open meanwhile; nobody locks it.
- **the session's pass.** Computing a grid fetches its imports through the cache,
  with the mutex held, and imports change at their own pace.
- **the scoped data server.** A command given `--data DIR` starts a server, fetches from
  it through its own importer and closes it on the way out, while others write DIR.
- **the page and the server.** Requests overlap, are answered out of order or not
  at all, and answers land on a page that has moved on. One that was overtaken
  leaves the page on an older State, saved mark included, until the next.
- **references between sheets.** Computing a sheet loads others, which load others:
  where each one leads from, and how a cycle is noticed, depends on the name the
  loader gave the sheet before it.

What makes each part correct is the list of properties in section 3; what could
go wrong is the list of hazards in `PROJECT.json`, each at the line where it
bites.

## 2. The modules

```
 SheetSession  <--- implements --- Session           the session, atomic / with its mutex
   |
 Serve -----------+                                  the HTTP handlers
   (EXTENDS)      |
                  v (INSTANCE)
               AtomicReplace <--- implements --- SaveAtomic   replacing a file /
               step by step
                  ^
 Apply -----------+ (EXTENDS)

 Importer ----+
              +--- (EXTENDS) --- ScopedRun           a fetch and the run's own server
 DataServer --+

 Tui --- (EXTENDS) ----+
                       +--- Terminal                 tsv tui: the pager or the editor
 Pager - (INSTANCE) ---+

 Loader ------+
              +--- (EXTENDS) --- Command             the one-shot commands
 Projection --+

 Browser   RefreshChain   ImportCache   BoundedRead
```

`MC<name>` instantiates a module for TLC, `<name>Proofs` holds its theorems;
ServeProofs also has the page's (Browser), whose server Serve is, ImportCacheProofs
the refresh chain's (RefreshChain), whose passes clear the cache, and
CommandProofs also has BoundedRead's, which is the reading the commands (Command)
take as one step. The names that begin with `Page`, `Chain` and `Command` there are those modules' Init, Next and
Spec.
Several components are modelled in the presence of another's contract, and not
of its steps: Serve's handlers call a session that is atomic because Session is
proved to implement SheetSession, and replace a file in one step because
SaveAtomic is proved to implement AtomicReplace. That is what keeps Serve small
enough to check and to prove.

**SheetSession, Session** (`session.go`, `state.go`, `structural.go`).
SheetSession is the abstract object: a document, the pass its grid was computed
in, a dirty flag; one step per operation. Session has the callers: `Lock`,
`Assign`, `BeginPass`, `Publish`, `Return` are the statements of the methods that
another goroutine could see between if the mutex were not there. Documents and
edits are constants (`Docs`, `Apply`), a rejected edit is `Rejected`, and a grid is
identified with the document and tick it was computed from, which is all that
being torn or stale can depend on.

**Serve** (`server.go`, `structure.go`). One request is `Receive`, the session calls
its handler makes, the file operation a save makes, and the answer. `Restart` is
the process killed at any point and started again on the file.

**AtomicReplace, SaveAtomic** (`save.go`, `saver.go`). The contract: a save replaces
the file by its data or leaves it. The steps: the staging name (process id and
counter), the mode of the sheet, create (truncated), fill, rename, remove; each
may fail, and any process may die between two of them. os.Root is external.

**ImportCache** (`cache.go`, `session.go:146`). The two critical sections of a
`Fetch` around the network, per key, several keys at once; the passes of several
callers under the session's mutex; `RefreshImports` clearing the cache; origins
that change between any two steps.

**Importer** (`importer.go`, `policy.go`, `response.go`, `database.go`). One fetch. A
host is its labels and a path its segments, so that wildcard matching and
confinement under the base are computed rather than assumed. Servers answer
anything, redirect anywhere, or say nothing.

**DataServer, ScopedRun** (`server.go`, `cli/data.go`, `cli/import.go`). DataServer has
`Start`, which leaves a goroutine behind, the goroutine, `Close`, and one request
from the kernel's queue to its answer: the name, the root, the open, the mode of
what was opened. ScopedRun is the command: `--data` resolved, imports configured,
the sheet computed, the closer that was deferred. It extends both, so that a
request for the run's own base is answered by DataServer's steps and every other
by Importer's servers.

**RefreshChain** (`refresh.go`, `serve_run.go`, the page's timer). The cadence, the
0 that means "none", the truncation to milliseconds, the timer that re-arms
itself while a cell is being edited.

**Browser** (`index.html`). Requests in flight with their answers, the server
taking them up in any order, `render` (which rebuilds the table) and
`refreshValues` (which patches it), the inputs a cell editor leaves behind, the
blur that commits, the selection that a `commit` or `structure` takes again when it
is answered, and the formula bar, whose Enter commits to the selection of that
moment. Whether a focused input that is removed blurs is left to the browser, so
it is a choice here. The table shows sources: that a value is of its source is
Session's business.

**Apply** (`apply.go`). Runs of the command over AtomicReplace's file, each reading
the sheet, then the edits, folding, replacing; with kill and rerun.

**BoundedRead** (`sources.go`, `loader.go`). Sources as sequences of bytes; the census
(the engine's, so a constant) of a file before it is read, of what was read, and of a
stream at doubling checkpoints; a writer that appends or truncates.

**Tui** (`model.go`, `keys.go`, `grid.go`, `declared.go`). Every message of the update
loop, on a grid whose shape and hidden rows depend on the document; `Window` is the
rows it is scrolled to and `Drawn` what a frame shows of them. The cursor leaves
`Window` only as rows that were revealed are hidden again (`CursorStaysSeen`).

**Pager** (`pager.go`, `drift.go`). The stat, the scan, the drift check, the reads of a
window block by block, the engine's block cache, and writers in place or by rename.
`cause` tells a window refused because the descriptor could not be stat'ed from one
refused because stat has changed: the message on screen is the same.

**Terminal** (`cli/tui_run.go`) composes the two as `runTUI` does: `Page` is a step of
Pager, from `openWindowed` on; a sheet it does not window is loaded whole
(`LoadEditable`) and edited (`Edit`, a step of Tui).

**Loader** (`loader.go`, `cli/loader.go`). Operators: the path operations both loaders
are made of, where a reference leads in each, what `os.Root` refuses, the name a
sheet is loaded by.

**Projection** (`cli/view.go`, `format.go`). Operators: the grid less what its view
hides, the header rows renumbered, the sections of the HTML table, each written as
the loop it is in the code. They are checked, and proved, against a definition that
has no loop: what is printed, numbered from the top, is the positions that are not
hidden, in their order (`InOrder`, `PrintsProjection`).

**Command** (`check.go`, `render.go`, `parse.go`, `explain.go`, `eval.go`, `app.go`).
A command line from its arguments to the exit code: `Start`, `OpenSheet`, `ReadSheet`
and the refusals of each, the references followed while a sheet is computed (`chain` is
the stack of sheets being computed), the answer written whole or cut short, and for
`check` the next sheet. `Linked` is what a chain is while it is followed: each name
clean, met once, and the one the sheet before it and the reference give. Reading is one step that may end in any of BoundedRead's
verdicts; `--data` and `--allow-import` were resolved before it, in ScopedRun.

## 3. The runs

Each configuration is a few processes and a few values; the bounds are named in
the constants and chosen so that the interesting interleaving is inside them.

| run | what it checks | instance, and why it is enough |
|---|---|---|
| session | `IInv` (a State is never torn, among its parts), `PassesInOrder`, `ActsAtomically` (Session implements SheetSession), `EveryCallReturns` | two callers, two cells, every method; two callers make every pair of critical sections meet, and the proof covers the rest |
| save_atomic | `IInv`, `ReplacesAtomically`, `NeverWidens` | two goroutines of one process, three staging names, two contents, sheets with and without a file. `MCSaveAtomicTwo.cfg` has the same with a saver in each of two processes; the proof has any number of both |
| serve | `IInv`, `CleanUnlessRaced` (the clean flag vouches for the file unless a save was overlapped), `ReadYourWrite` | two requests, two edits that can undo one another, kill and restart; documents are told apart by the edits they include |
| serve_clean | `CleanMeansSaved`, **violated**: section 6 | the same |
| terminal | of the editor: `NoUnwarnedQuit`, `CleanMeansSaved`, `CursorStaysSeen`; of the pager: `CaughtByTheNextKey`, `RefusesWithCause`; `TerminalIInv` (the cursor in the grid, the tick armed, `MixedOnlyUnderAWrite`) | up to three rows and two columns, of which some hide, heights below, at and above the chrome; a windowed file of five rows in three blocks, two writes, of which the second is invisible to stat |
| imports | `IInv` (with `AnsweredOnce`), `RefreshIsFresh`, `ImportsHoldStill` | two callers, two keys, two changes of each origin: one before and one after a refresh was asked for |
| refresh | `ChainTypeOK`, `NextIsSoonest` (against a definition by sets), `KeepsRefreshing` | a day of six ticks, two to a millisecond, every sheet of up to two schedules, flags included |
| apply | `IInv` (with `PrintedWasWritten`), `FoldsTheFileUnlessOvertaken` | two runs, three documents, one file that is not in canonical form and one that does not parse |
| bounded_read | `IInv` (with `ParsedIsBudgeted`), `RefusedEarly`, `ArrivesWhole` | a budget of two cells, sources up to six bytes, so that two doublings of the checkpoint happen |
| scoped_run | `OnlyPermitted` and `FetchEnds` of the fetch; `ResolvesWhatIsThere` (the first fetch included, which may come before the goroutine serves), `ListenerGoes`; `RunIInv` (with `WholeWithinCap` and `ServesRegularFiles`) | a listed, a wildcarded, an apex and a local host over both schemes; the real limit of five; bodies from empty to two bytes over the cap; a directory whose one tabular file becomes a FIFO, a directory or nothing, and back, and which may go itself |
| browser | `PageIInv` (with `OneRefresh` and `ShownIsSession`), `AloneStaysAlone`, `BarIsOfSelection` | two requests in flight and two cells with two sources: a request can overtake another, and an answer can be for the cell that is not selected |
| command | `PrintsProjection`, `ResolvesBesideReferrer`, `StaysInDirectory`, `ComputesNoSheetTwice`; `CommandIInv` (with `AnswersWholeOrNothing`, `ExitIsWorst`, `Linked`) | every kind of command, up to three sheets to check (the outcome that decides may be first, last or between), chains of up to six sheets over the four of two directories (so a sheet computed inside itself has room to happen), references that go down, up, back to where they came from, and out; grids of up to three rows with every view of them |

Deadlock is checked except where the system really may stop: a process that died
(save_atomic), runs of apply that are over, a read that has its verdict, a pager
or an editor that was quit, a command that returned or exited. Symmetry is used over
interchangeable callers,
requests and contents, and never with liveness.

### Fairness

- *session*: `WF` on a goroutine's steps inside a method (the Go scheduler runs a
  runnable goroutine) and `SF` on taking the mutex (`sync.Mutex` hands the lock to
  a waiter it has starved for a millisecond). `EveryCallReturns` needs both.
- *refresh*: `WF` on the clock, on the page's event loop and on the server. Nothing
  makes the user close the cell being edited: `KeepsRefreshing` assumes it.
- *scoped_run*: `WF` on the fetcher's steps, on the goroutines of the data server, on
  the deferred closer, and on the deadline of a fetch from another server. Those
  servers have none: a fetch ends although they never answer. The deadline of a
  fetch from the run's own server may pass and is not fair, so `FetchEnds` says
  that such a fetch does not depend on it.

## 4. What is proved

For every value of the constants: any number of callers, requests, savers, runs and
sheets, files and windows of any size, any servers, and any engine that keeps the
assumptions below. Each proof is of an inductive invariant, with one lemma or step per
action and one step per conjunct the action can disturb; TLC checks the same invariant
in the run of the module.

| theorem | module | the argument |
|---|---|---|
| `Invariance`, `NeverTorn`, `Ordinals` | SessionProofs | `IInv` adds to the type: whoever is between Lock and Return holds the mutex, so at most one is (`LockDiscipline`); what the one inside is about to do is to the document as it stands (`SectionIntent`); outside a section the grid is of the document (`Coherent`). Without the first the others are not inductive |
| `Refinement` | SessionProofs | Session implements SheetSession: a method's effect is the step that publishes, every other step stutters |
| `Invariance`, `NeverTruncated` | SaveAtomicProofs | no two savers at work have one staging name (`OwnStaging`, from the counter and the process id), so what is staged is whole when it is renamed (`StagedWhole`) and so is the sheet (`SheetWhole`) |
| `NobodyNew` | SaveAtomicProofs | a staging file that is about to be filled is there, created with the mode it was granted (`StagedWhole`), so the writing and the renaming of it bring no file into being with a mode nobody asked for |
| `Atomicity` | SaveAtomicProofs | SaveAtomic implements AtomicReplace: Rename is the replacement, everything else, a failure or a death included, stutters |
| `Invariance`, `CleanIsSaved`, `AnswersIncludeTheEdit` | ServeProofs | `IInv` has what a save holds at each point of its handler: which request is saving alone (`SoleSave`), that a late write is accounted for (`LateWrite`), and that a pass an edit is answered with includes it (`PassReached`) |
| `PageInvariance`, `StaysAlone`, `BarWritesItsCell` | ServeProofs | until two requests meet, the one in flight left from a page that showed the session (`OneAtATime`), so what it is answered with is what the page comes to show. An input focused with nothing in flight has nothing to lose it to: every control that sends takes the focus first, and the timer holds off. The bar follows the selection but while it is typed in (`BarIsSource`), and what is typed there is sent, or gone, before a render selects another cell |
| `Invariance`, `Freshness`, `FetchedOnce`, `OnlyARefreshMoves` | ImportCacheProofs | one pass at a time holds the mutex (`Exclusive`), so a key missed is still missing when it is stored: each answer of an origin is in the cache, on its way there, or none (`Accounted`, `Kept`). What a refresh's own pass has is no older than its call (`RefreshedPass`), for it cleared the cache with the mutex held |
| `ChainInvariance`, `ToldTheSoonest` | ImportCacheProofs | what the loop over the schedules keeps at each of them is the least of the positive delays so far (`SoonestIs`), and that is the first instant at which any is due (`SoonestIsFirstDue`): 0 of a schedule means that it is not due, never that it is due now. The loop and `FlattenSeq` are shown to exist and to compute their next element by the least counterexample in Nat (`Inductively`) |
| `Invariance`, `PrintsWhatWasWritten`, `OnlyOvertaking` | ApplyProofs | a save under way is of the document in hand (`SavesItsDocument`), and until it is overtaken a run has the document of the file as it stands (`HasTheFile`): every replacement marks the others overtaken |
| `ClientOfTheSaver` | ApplyProofs | each step of apply is a step of AtomicReplace or none, so the saver's contract, proved of SaveAtomic, is one apply keeps to |
| `Invariance`, `SavedIsTheFile`, `QuitsWarned`, `CursorSeen` | TerminalProofs | of the editor: the cursor is in the grid, for an edit takes no rows away and a reveal only moves it to another row; it stays in the window, for a movement and a resize scroll to it (`Moves`, `Resizes`) and nothing else but re-hiding moves it or shrinks the grid (`WindowKeeps`); a tick is armed after any message, the flag vouches for the file, and a confirmation is of the last edit (`WarnedOfAll`) |
| `Invariance`, `WriteCaught`, `RefusalHasACause` | TerminalProofs | of the pager: what stat said at the open, the census, and the blocks read are of the versions between the open and now (`ReadSinceTheOpen`); once a visible write is there the drift check fails for good (`DriftStays`), so at most the window under way is computed after it. The check is of the inode held, so a rename over the path makes it fail for no window |
| `Invariance`, `StaysPermitted`, `Resolves` | ScopedRunProofs | the command, the goroutine and the handler each in order (`StagesInOrder`, `HandlerInOrder`), with the fetcher (`FetchInOrder`: a URL to be requested was permitted at its hop). The run's own server listens until the command returns, so a fetch nobody overtook has an answer, and it is of the file its reference names |
| `Invariance`, `RefusesInTime`, `Whole` | CommandProofs | what is buffered is how the source begins (`ReadsFromTheStart`), of a file only under a census in budget (`BuffersWhatIsVetted`), of a stream at most twice a prefix in budget (`DoublesWhatIsVetted`); a census grows with its prefix, so the buffer parsed is the buffer counted |
| `CommandInvariance`, `AnswersOnce` | CommandProofs | `worst` is the severest of the outcomes taken up, the last one not before its sheet is left (`KeepsTheWorst`), and stdout agrees with the outcome of the sheet (`AnswersAsItEnds`). Severities alone do not decide the exit code, usage mistakes and others being equally severe: that check has none of the first is part of the invariant |
| `CommandInvariance` (its part `Linked`), `ResolvesBeside` | CommandProofs | the place of a sheet is its name cleaned below the root or the working directory, so "beside the sheet" is the same said of its name or of its place if cleaning a relative path before it is joined, or only then, comes to the same: `WalkTwice`, name by name of the path. It rests on what a clean path is (no `..` but a run of them at its start, `Settled`), that Clean makes one and leaves one alone (`Cleaned`), and that the path of a sheet ends in its name. The top sheet may be given by any path (`SourceIs`), goes by its bare name, and lies where the whole path says (`TopPlace`). A chain grows by a reference and shrinks by a return, and a link is the same whatever comes after it (`LinkStays`) |
| `Confines`, `ComputesOnce` | CommandProofs | a name FS does not refuse has no `..` at all, being clean and not beginning with one, so its place is the root's and the name after it (`PlaceBelow`); and below the root two such names at one place are one name (`OnePlace`), while a name is on the chain once (`Linked`). Were references not cleaned, or names taken as they are spelled, it would fail |
| `PrintsWhole` | CommandProofs | after m rows, what is kept is numbered by the positions up to m that are not hidden, in order, and the headers are where those of them that are headers landed (`Kept`, for the rows and again for the cells of a row). A block of leading headers ends somewhere (`LeadingIs`), and head and body are the rows cut there |

The loops and recursions above are functions on 0..n, which are shown to exist and to
compute their next value from the last (`Iteration`), and reasoned about by the least
number, or the shortest sequence, that fails (`UpTo`, `ByAppending`): `WFMin` of the
library wants a set and not an operator, which is what makes it usable here.

### From what assumptions

Each module names its own, and TLC evaluates them on every run. Most say that a
constant is of its type and that a "nothing" is no something (`CallerAssumption`,
`SaveAssumption`, `ServeAssumption`, `ImportAssumption`, `ImporterAssumption`,
`ScopedRunAssumption`, `BrowserAssumption`, `CommandAssumption`). These say more:

- `ApplyAssumption`: what a document is printed as parses to it again (the engine's
  canonical form, on which the revision of apply rests).
- `EditorAssumption`: no edit of the terminal editor takes a row or a column away.
  `commit`, `fillFrom` and `duplicate` (`tui/model.go:116-136`, `keys.go:89`) leave
  the cursor where it was, and so count on it.
- `RefreshAssumption`: a day is a time that no duration of a schedule is longer than and
  that every calendar pattern with an instant at all recurs in.
- `BoundedReadAssumption`, in `CensusGrows`: "a prefix's cell count only ever grows as
  more bytes arrive", as `sources.go` says where it counts at checkpoints.
- `PagerAssumption`, in `StatMovesOn`: stat does not come back to an earlier answer
  after another. `drift.go` says itself that what stat cannot see is not caught.
  Were a length to come back within one granule of the mtime (or an mtime be set back),
  a window could be computed between, refused, and then the same one shown again: TLC
  finds `TerminalIInv` violated with a `Stat` of 0, 1, 0.
- `LoaderAssumption`: the working directory is an absolute path, which the kernel keeps
  clean; and the path of a sheet, given or referred to, ends in a name. One that ends
  in `..` or has no name is a directory's, which neither loader reads a sheet from.
- `CommandAssumption`: the rows a view declares headers are rows of its grid, as the
  engine resolves a view to positions within it. Hidden rows and columns may be any.

### What is only model-checked

- Liveness (`EveryCallReturns`, `KeepsRefreshing`, `FetchEnds`, `ListenerGoes`):
  fairness and ENABLED are beyond the prover.

Every safety invariant and every action property that a run checks is proved.

## 5. What is abstracted

- The engine: what an edit does to a document, what a grid is, what a formula
  refers to. A document is a value, an edit a function of documents.
- JSON, status codes, messages, rendering, logging, flags.
- A rename is one step, a file write is not; no file system loses a rename that
  returned (`saveAtomic` does not sync, and a power failure is not modelled).
- The data server's requests are GETs of the importer; its other clients and the
  other methods, which it refuses, are not there.
- Time is counted in ticks in RefreshChain and absent elsewhere.
- A process id that is taken again after a crash.
- In the page: the reference highlights, the embed panel, layout, a second tab. A
  structure edit may give any document, over the same cells.
- In the one-shot commands: reading is one step; stdin is one sheet; nothing else
  writes the files meanwhile (BoundedRead has that); there are no symbolic links.

## 6. Where the code and its text differ

Modelling asked each comment whether it holds. One disagreement is kept as a run:

- **serve_clean.** `handleSave` takes the source, writes it and clears the flag in
  three steps (`server.go:154-161`). An edit between the first and the last is in
  the session, not in the file, and the flag says saved. `CleanUnlessRaced`, which
  is proved, says that nothing else makes the flag lie.

The others are stated in their modules. TLC answers each with a counterexample
when it is named, alone, in place of the INVARIANTS and PROPERTIES of the
configuration given (some, which need an instance of their own, have one and are
checked as they stand):

| property | configuration | what the code does |
|---|---|---|
| `UnconfinedResolvesBeside` | MCCommand.cfg | `resolvePath` tells the top sheet by a directory of "." (`loader.go:113`), which any sheet in the working directory has: a reference of its own then leads from the top sheet's directory, not "the referencing sheet's own" |
| `AbsoluteIsRejected` | MCCommand.cfg | "an absolute path ... is rejected (#REF!)" (`loader.go:4-6`), but `FS` joins it to the base and opens the file of that name within the root (`loader.go:50`) |
| `RefreshLeavesEditorAlone` | MCBrowser.cfg | "A cell being edited is left alone" by the timer, but not by an answer that was asked for before the cell was opened, which replaces the editor (`index.html:519`). `AloneStaysAlone`, proved, says that one opened with nothing in flight is safe |
| `SelectionIsTheUsers` | MCBrowser.cfg | the answer to a commit selects its cell, wherever the selection is by then (`index.html:698`), and what was being typed in the formula bar is gone |
| `UntypedIsNoEdit` | MCBrowser.cfg | the bar is not filled by the first render: Enter in it empties the cell selected at the start (`index.html:721`) |
| `CursorSkipsHidden` | MCTerminal.cfg | the arrows walk onto rows and columns that are hidden (`keys.go:19`) |
| `CursorStaysOnScreen` | MCTerminal.cfg | "pulled back onto a row that is actually rendered" (`model.go:137`): re-hiding moves the cursor and not the window (`model.go:144`), and the row may be above or below it. `CursorStaysSeen`, proved, says that nothing else takes the cursor out of the window and that the next movement or resize takes the window to it |
| `NeverRendersDrift` | MCTerminal.cfg | a write between the drift check and the reads is shown until the next key (`pager.go:94`) |
| `KeepsMode` | MCSaveAtomic.cfg | a mode "the sheet's current mode when it exists" (`save.go:54`) loses the bits of the umask |
| `NoStagingSurvives` | MCSaveAtomic.cfg | a write that fails half way returns without removing the staging file (`save.go:29`) |
| `StopsOnlyWhenNoneIsDue` | MCRefreshStops.cfg | a delay under a millisecond is truncated to the 0 that means "none" (`server.go:46`), and the page never asks again. `NextIsSoonest`, proved, takes the truncation as it is |
| `FollowsTheSheet` | MCRefreshSheet.cfg | the cadence is the one of the sheet as it was loaded (`serve_run.go:111`) |
| `ConditionalHonoured` | MCApply.cfg | a batch is "refused when the sheet's content revision differs" as the sheet was when it was read (`apply.go:117`): of two batches on one revision both are accepted, and the first is lost. `FoldsTheFileUnlessOvertaken`, proved, is what holds |
| `FollowsMaxRedirects` | MCImporterHops.cfg | four redirects are followed, not five (`importer.go:189`) |
| `ReportsWhereItWent` | MCImporterHops.cfg | the URL reported is the one before redirects (`importer.go:95`) |
| `GoneOnReturn` | MCScopedRun.cfg | a Close that comes before the goroutine has registered the listener leaves it open until the goroutine runs (`dataserve/server.go:71`) |
| `WholeFile` | MCScopedRun.cfg | a read error in the middle of a file ends a 200 answer as if the file ended there (`dataserve/server.go:163`) |

And where no model is needed to see it: the text of `explain` succeeds though its
writes failed (`explain.go:62`; `AnswersWholeOrNothing` excepts it); `from-json`
reports a read that failed as a syntax error, exit 2 (`parse.go:62`); `serve api`
"shuts down on the context rather than dying with it" (`serve_api.go:148`), but `main`
gives it a context that is never cancelled, so an interrupt ends the process.

## 7. Not modelled, and the plan

Not modelled: the data command, which serves DataServer's handler in the
foreground; `serve api`, whose handler is a library's; the declarations of commands
and flags, completion scripts and manual pages; colours and layout; the playground
page, whose engine is not in this repository; the page's reference highlights and
embed panel, which an answer overtaken by another may leave stale.
`PROJECT.json` has the reason of each.

The plan, most important first; 1 to 6 are done.

1. The session, its mutex, and the save: Session, SaveAtomic and their contracts,
   checked and proved.
2. Serve over both contracts, checked and proved.
3. The import cache, the refresh chain, apply, the terminal editor and pager,
   bounded reading: checked.
4. The fetcher, the data server and the page: checked.
5. The page's selection and formula bar; the pager and the editor composed as `tsv
   tui`; the sheet loader; the one-shot commands, from the command line to the exit
   code: checked.
6. ImportCache, the refresh chain, Apply, the mode of a saved file, the editor and the
   pager, the scoped run, bounded reading, the page and the commands: proved (section
   4).
7. What the loaders' paths and the projection's loops compute, for every path, chain
   and grid: proved (section 4). Nothing is left of the plan but what TLC alone can show:
   liveness.
