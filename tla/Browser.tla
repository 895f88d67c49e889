------------------------------- MODULE Browser -------------------------------
(***************************************************************************)
(* The page serve embeds, in front of a session nobody else edits: its     *)
(* requests, which the server may take up and answer in any order, the     *)
(* State each answer is shown from, the one refresh timer, and the inputs  *)
(* a cell editor leaves in the table until it is drawn again.  The server  *)
(* handles a request in one step (Serve has the steps).  What the page     *)
(* highlights of a selection, the references and the embedded sheet, and   *)
(* what a user types, which is any text when it is sent, are left out.     *)
(***************************************************************************)
EXTENDS Naturals

CONSTANTS
    Slots, \* bound: requests in flight at a time
    Cells,    \* any of them the first, that is selected as the page loads
    Texts,    \* sources a cell may have
    Empty,    \* the empty one
    Bar,      \* the formula bar
    Typed,    \* a text of the user's own
    None

Sheets == [Cells -> Texts]
States == [doc : Sheets, dirty : BOOLEAN]

ASSUME BrowserAssumption ==
    /\ Empty \in Texts
    /\ {Typed, None} \cap Texts = {} /\ {Bar, None} \cap Cells = {}
    /\ Bar # None /\ Typed # None /\ None \notin States

VARIABLES
    session, \* the server's document and dirty flag
    flight,  \* flight[q]: the request q stands for, and its answer
    timer,   \* whether the refresh timer is armed
    shown,   \* the State the page's table shows; None before the first
    sel,     \* the selected cell
    bar,     \* the text in the formula bar; None, and empty, until it is filled from a render
    inputs,  \* the cells that hold an editor
    focus,   \* the cell whose editor has the focus, or Bar, or None
    alone,   \* history: nothing was in flight when it got the focus, or was sent by it
    crossed  \* history: a request met another in flight, or its answer was lost

barVars == <<sel, bar>>
editorVars == <<inputs, focus, alone>>
pageVars == <<session, flight, timer, shown, barVars, editorVars, crossed>>

Idle == [kind |-> "idle"]
Kinds == {"state", "cell", "structure", "recompute", "save"}

Request(kind, cell, text) ==
    [kind |-> kind, cell |-> cell, text |-> text, answer |-> "none", state |-> None]
Plain(kind) == Request(kind, None, None)

InFlight == {q \in Slots : flight[q] # Idle}
Recomputes == {q \in InFlight : flight[q].kind = "recompute"}

Loading == {[[p \in Slots |-> Idle] EXCEPT ![q] = Plain("state")] : q \in Slots}

\* The source shown for a cell: before the first render none.
Source(c) == IF shown = None THEN None ELSE shown.doc[c]

\* The page asks for the state as it loads, and for the delay to the next refresh.
PageInit ==
    /\ session \in [doc : Sheets, dirty : {FALSE}]
    /\ flight \in Loading
    /\ timer \in BOOLEAN
    /\ shown = None
    /\ sel \in Cells
    /\ bar = None
    /\ inputs = {}
    /\ focus = None
    /\ alone = FALSE
    /\ crossed = FALSE

Focus(target) ==
    /\ focus = None
    /\ focus' = target
    /\ alone' = (InFlight = {})

Blur == focus' = None /\ alone' = FALSE

\* The page is loaded again: its requests in flight are as good as lost.
Reload ==
    /\ flight' \in Loading
    /\ timer' \in BOOLEAN
    /\ shown' = None
    /\ sel' \in Cells
    /\ bar' = None
    /\ inputs' = {}
    /\ Blur
    /\ crossed' = (InFlight # {})
    /\ UNCHANGED session

\* A request leaves, in place of those of `done`, which have been answered.
SendAfter(done, request) ==
    /\ \E q \in (Slots \ InFlight) \cup done :
        flight' = [p \in Slots |-> IF p = q THEN request ELSE IF p \in done THEN Idle ELSE flight[p]]
    /\ crossed' = (crossed \/ InFlight \ done # {})

Send(request) == SendAfter({}, request)

\* select: a click on a cell, or an arrow key with no input focused.
Select(c) ==
    /\ focus = None
    /\ shown = None => c = sel
    /\ sel' = c
    /\ bar' = Source(c)
    /\ UNCHANGED <<session, flight, timer, shown, editorVars, crossed>>

\* Enter, or a second click, on the selection: a new input takes the place of
\* the cell's text, or of an input left there.
EditInCell ==
    /\ shown # None
    /\ Focus(sel)
    /\ inputs' = inputs \cup {sel}
    /\ UNCHANGED <<session, flight, timer, shown, barVars, crossed>>

\* A click into an input whose commit has not been answered, or was refused: its
\* cell is selected.
Refocus(c) ==
    /\ c \in inputs
    /\ Focus(c)
    /\ sel' = c
    /\ bar' = Source(c)
    /\ UNCHANGED <<session, flight, timer, shown, inputs, crossed>>

\* Enter, or the focus going elsewhere: blur commits, and leaves the input; so it
\* does on Escape, which has put the source back.
Commit ==
    /\ focus \in Cells
    /\ \E t \in Texts : Send(Request("cell", focus, t))
    /\ Blur
    /\ UNCHANGED <<session, timer, shown, barVars, inputs>>

FocusBar ==
    /\ Focus(Bar)
    /\ UNCHANGED <<session, flight, timer, shown, barVars, inputs, crossed>>

\* What is typed in the bar; Escape puts the source back.
TypeInBar ==
    /\ focus = Bar
    /\ bar' \in {Typed, Source(sel)}
    /\ UNCHANGED <<session, flight, timer, shown, sel, editorVars, crossed>>

\* Enter commits what the bar says to the cell selected, and the bar keeps the focus.
EnterBar ==
    /\ focus = Bar
    /\ \E t \in CASE bar = Typed -> Texts [] bar = None -> {Empty} [] OTHER -> {bar} :
        Send(Request("cell", sel, t))
    /\ alone' = FALSE
    /\ UNCHANGED <<session, timer, shown, barVars, inputs, focus>>

LeaveBar ==
    /\ focus = Bar
    /\ Blur
    /\ UNCHANGED <<session, flight, timer, shown, barVars, inputs, crossed>>

\* A structure tool or shortcut, the save button: an input loses the focus first.
UseControl ==
    /\ focus = None
    /\ \E kind \in {"structure", "save"} : Send(Plain(kind))
    /\ UNCHANGED <<session, timer, shown, barVars, editorVars>>

\* The reveal button draws the table again, from the State shown, and not the
\* selection nor the editors that were left in it.
ToggleReveal ==
    /\ focus = None /\ shown # None
    /\ inputs' = {}
    /\ UNCHANGED <<session, flight, timer, shown, barVars, focus, alone, crossed>>

\* Mutated: the timer does not look where the focus is.
RefreshAnyway ==
    /\ timer
    /\ Send(Plain("recompute"))
    /\ timer' = FALSE
    /\ UNCHANGED <<session, shown, barVars, editorVars>>

\* Mutated: an interval, not a timer armed again by each answer.
RefreshByInterval ==
    /\ timer /\ focus = None
    /\ Send(Plain("recompute"))
    /\ UNCHANGED <<session, timer, shown, barVars, editorVars>>

\* The timer fires with no input focused; with one it is only armed again.
Refresh ==
    /\ timer /\ focus = None
    /\ Send(Plain("recompute"))
    /\ timer' = FALSE
    /\ UNCHANGED <<session, shown, barVars, editorVars>>

Answered(q, doc, dirty) ==
    /\ session' = [doc |-> doc, dirty |-> dirty]
    /\ flight' = [flight EXCEPT ![q].answer = "ok",
                    ![q].state = IF flight[q].kind = "save" THEN None ELSE session']
    /\ UNCHANGED <<timer, shown, barVars, editorVars, crossed>>

Refused(q) ==
    /\ flight' = [flight EXCEPT ![q] = [Plain(@.kind) EXCEPT !.answer = "error"]]
    /\ UNCHANGED <<session, timer, shown, barVars, editorVars, crossed>>

\* The server handles a request, whichever it takes up first.
TakeUp(q) ==
    /\ flight[q] # Idle /\ flight[q].answer = "none"
    /\ \/ /\ flight[q].kind \in {"state", "recompute"}
          /\ Answered(q, session.doc, session.dirty)
       \/ /\ flight[q].kind = "cell"
          /\ Answered(q, [session.doc EXCEPT ![flight[q].cell] = flight[q].text], TRUE)
       \/ flight[q].kind = "structure" /\ \E d \in Sheets : Answered(q, d, TRUE)
       \/ flight[q].kind = "save" /\ Answered(q, session.doc, FALSE)
       \/ flight[q].kind \in {"cell", "structure", "save"} /\ Refused(q)

\* The inputs of `gone` leave the table.  Browsers differ on whether one that
\* has the focus blurs as it goes, that is, commits.
Remove(q, gone) ==
    /\ inputs' = inputs \ gone
    /\ IF focus \in gone THEN Blur ELSE UNCHANGED <<focus, alone>>
    /\ \/ flight' = [flight EXCEPT ![q] = Idle] /\ UNCHANGED crossed
       \/ /\ focus \in gone
          /\ \E t \in Texts : SendAfter({q}, Request("cell", focus, t))

\* Mutated: what structure has moved under the selection is not read again.
SelectAgainOnCommit(q) ==
    IF flight[q].kind = "cell"
    THEN sel' = flight[q].cell /\ bar' = shown'.doc[sel']
    ELSE UNCHANGED barVars

\* commit selects the cell it was for, and structure the selection, once drawn.
SelectAgain(q) ==
    IF flight[q].kind \in {"cell", "structure"}
    THEN /\ sel' = IF flight[q].kind = "cell" THEN flight[q].cell ELSE sel
         /\ bar' = shown'.doc[sel']
    ELSE UNCHANGED barVars

\* render builds the table anew.
Render(q) ==
    /\ flight[q].kind \in {"state", "cell", "structure"} /\ flight[q].answer = "ok"
    /\ shown' = flight[q].state
    /\ Remove(q, Cells)
    /\ SelectAgain(q)
    /\ UNCHANGED <<session, timer>>

\* refreshValues patches each cell whose text is not the value it should show;
\* the text of a cell that holds an input is empty, and its value may be too.
\* There is no cell to patch before the first render.  The answer tells whether
\* there is a next.
RefreshValues(q) ==
    /\ flight[q].kind = "recompute" /\ flight[q].answer = "ok"
    /\ shown' = IF shown = None THEN None ELSE flight[q].state
    /\ \E gone \in SUBSET inputs : Remove(q, gone)
    /\ timer' \in BOOLEAN
    /\ UNCHANGED <<session, barVars>>

\* Mutated: the session is taken to be as shown, and is not asked.
SavedUnasked(q) ==
    /\ flight[q].kind = "save" /\ flight[q].answer = "ok"
    /\ flight' = [flight EXCEPT ![q] = Idle]
    /\ UNCHANGED <<session, timer, shown, barVars, editorVars, crossed>>

\* A save is answered with no State, so the page asks for it.
Saved(q) ==
    /\ flight[q].kind = "save" /\ flight[q].answer = "ok"
    /\ SendAfter({q}, Plain("state"))
    /\ UNCHANGED <<session, timer, shown, barVars, editorVars>>

ReportError(q) ==
    /\ flight[q].answer = "error"
    /\ flight' = [flight EXCEPT ![q] = Idle]
    /\ UNCHANGED <<session, timer, shown, barVars, editorVars, crossed>>

\* The connection breaks, before the request arrived or before its answer did:
\* the server does not take it up after that.
Lost(q) ==
    /\ flight' = [flight EXCEPT ![q] = Idle]
    /\ crossed' = TRUE
    /\ UNCHANGED <<session, timer, shown, barVars, editorVars>>

Settle(q) == Render(q) \/ RefreshValues(q) \/ Saved(q) \/ ReportError(q) \/ Lost(q)

PageNext ==
    \/ \E c \in Cells : Select(c) \/ Refocus(c)
    \/ EditInCell \/ Commit
    \/ FocusBar \/ TypeInBar \/ EnterBar \/ LeaveBar
    \/ UseControl \/ ToggleReveal \/ Refresh \/ Reload
    \/ \E q \in Slots : TakeUp(q)
    \/ \E q \in InFlight : Settle(q)

PageSpec == PageInit /\ [][PageNext]_pageVars
-----------------------------------------------------------------------------
(* Properties *)

\* What a request and its answer are: one that writes a cell says which and what,
\* until it is refused, and an answer but a save's has a State.
Asked == [kind : Kinds, cell : Cells \cup {None}, text : Texts \cup {None},
          answer : {"none", "ok", "error"}, state : States \cup {None}]

WellAsked(r) ==
    /\ r \in Asked
    /\ r.kind = "cell" /\ r.answer # "error" => r.cell \in Cells /\ r.text \in Texts
    /\ r.answer = "ok" /\ r.kind # "save" => r.state \in States
    /\ r.kind \in {"state", "recompute"} => r.answer # "error"

\* index.html's timer is a one-shot: it is armed, or its request is in flight.
OneRefresh ==
    /\ \A q, r \in Recomputes : q = r
    /\ timer => Recomputes = {}

PageTypeOK ==
    /\ session \in States
    /\ DOMAIN flight = Slots
    /\ \A q \in InFlight : WellAsked(flight[q])
    /\ shown \in States \cup {None}
    /\ sel \in Cells /\ bar \in Texts \cup {Typed, None}
    /\ inputs \subseteq Cells /\ focus \in inputs \cup {Bar, None}
    /\ timer \in BOOLEAN /\ alone \in BOOLEAN /\ crossed \in BOOLEAN

Quiet == InFlight = {} /\ ~crossed

\* When nothing is in flight, and no request ever met another or was lost, what
\* the page shows, the saved mark included, is what the session holds.
ShownIsSession == Quiet => shown = session

\* What makes it so: a request that met no other is alone in flight, finds the
\* session shown, but for one for the State, and is answered with the session.
OneAtATime ==
    ~crossed =>
        /\ \A q, r \in InFlight : q = r
        /\ \A q \in InFlight :
            /\ flight[q].kind # "state" => shown # None
            /\ flight[q].kind # "state" /\ flight[q].answer # "ok" => shown = session
            /\ flight[q].answer = "ok" /\ flight[q].kind # "save" => flight[q].state = session
            /\ flight[q].kind \notin {"cell", "structure"} /\ shown # None
                => shown.doc = session.doc

\* What the bar says that was not typed is the source shown of the selection.
BarIsSource == ~crossed /\ bar \notin {Typed, None} => shown # None /\ bar = shown.doc[sel]

\* An input that got the focus with nothing in flight keeps what is typed into it
\* until it is committed: the timer holds off, every other control takes the
\* focus first, and so no answer can come and take it away.
AloneStaysAlone == focus # None /\ alone => InFlight = {}

PageIInv ==
    /\ PageTypeOK /\ OneRefresh /\ ShownIsSession /\ OneAtATime
    /\ BarIsSource /\ AloneStaysAlone

\* Enter in the formula bar writes to the selection, which answers move.  What is
\* typed there never goes to another cell than it was typed for; and a text that
\* was not typed is the source of the cell it goes to.
BarIsOfSelection ==
    /\ [][bar = Typed /\ bar' = Typed => sel' = sel]_pageVars
    /\ [](Quiet /\ bar \notin {Typed, None} => bar = shown.doc[sel])

\* index.html says of the refresh: "A cell being edited is left alone".  The editor
\* of a cell that has a source to show stays open as a refresh is answered.
RefreshLeavesEditorAlone ==
    [][\A q \in Slots : RefreshValues(q) /\ focus \in Cells =>
        Source(focus) = Empty \/ focus' = focus]_pageVars

\* The selection is the user's: no answer moves it.
SelectionIsTheUsers == [][(\E q \in InFlight : Settle(q)) => sel' = sel]_barVars

\* Enter in a bar nobody has typed in leaves the sheet as it is.
UntypedIsNoEdit == Quiet /\ shown # None /\ bar = None => shown.doc[sel] = Empty
=============================================================================
