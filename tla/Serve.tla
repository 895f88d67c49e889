-------------------------------- MODULE Serve --------------------------------
(***************************************************************************)
(* internal/serve: one goroutine per HTTP request over one shared Session  *)
(* and one sheet file.  A session method is one step (SheetSession, which  *)
(* Session implements) and a save is a replacement of the file             *)
(* (AtomicReplace, which SaveAtomic implements); a HANDLER is several, and *)
(* the handlers of different requests interleave between them.             *)
(*                                                                         *)
(* The process may be killed at any point and started again on the file.   *)
(***************************************************************************)
EXTENDS SheetSession

CONSTANTS
    Requests,   \* the requests the server has in hand at once
    NoDoc,      \* no document
    EdgeFill,   \* a fill on the top row or in the first column
    BadRequest  \* a body that does not decode, a negative index, an unknown op

ASSUME ServeAssumption ==
    /\ NoDoc \notin Docs
    /\ {EdgeFill, BadRequest} \cap Edits = {}
    /\ EdgeFill # BadRequest

VARIABLES
    file,       \* the sheet file
    asked,      \* asked[r]: the source handleSave took
    status,     \* status[r]: how far handleSave's saver has come
    pc,         \* pc[r]: where the handler of r stands
    req,        \* req[r]: the request
    code,       \* code[r]: the status r was answered with, 0 until then
    body,       \* body[r]: the ordinal of the pass its State shows, 0 if none
    wrote,      \* history: the ordinal of the pass r's own edit ran, 0 if none
    overlapped, \* history: an edit or another save fell inside r's save
    raced       \* history: so did one in the save that last cleared isDirty

Disk == INSTANCE AtomicReplace WITH
    Savers <- Requests, Contents <- Docs, OldSheets <- {InitialDoc},
    Nothing <- NoDoc

diskVars == <<file, asked, status>>
handlerVars == <<pc, req, code, body, wrote>>
historyVars == <<overlapped, raced>>
vars == <<sheetVars, diskVars, handlerVars, historyVars>>

RequestBodies ==
    [route : {"cell"}, edit : CellEdits \cup {BadRequest}]
        \cup [route : {"structure"}, edit : StructuralEdits \cup {EdgeFill, BadRequest}]
        \cup [route : {"save", "recompute", "state", "forbidden"}]

TypeOK ==
    /\ SheetTypeOK
    /\ Disk!SaveTypeOK
    /\ pc \in [Requests -> {"idle", "handle", "snapshot", "save", "mark"}]
    /\ req \in [Requests -> RequestBodies]
    /\ code \in [Requests -> {0, 200, 400, 403, 422, 500}]
    /\ body \in [Requests -> Nat]
    /\ wrote \in [Requests -> Nat]
    /\ overlapped \in [Requests -> BOOLEAN]
    /\ raced \in BOOLEAN

Init ==
    /\ SheetInit
    /\ Disk!SaveInit
    /\ pc = [r \in Requests |-> "idle"]
    /\ req = [r \in Requests |-> [route |-> "state"]]
    /\ code = [r \in Requests |-> 0]
    /\ body = [r \in Requests |-> 0]
    /\ wrote = [r \in Requests |-> 0]
    /\ overlapped = [r \in Requests |-> FALSE]
    /\ raced = FALSE

Goto(r, from, to) ==
    /\ pc[r] = from
    /\ pc' = [pc EXCEPT ![r] = to]

Answer(r, status_code) == code' = [code EXCEPT ![r] = status_code]

AnswerState(r) ==
    /\ Answer(r, 200)
    /\ body' = [body EXCEPT ![r] = computed'.tick]

\* The saves between their Source and their MarkSaved.
Saving == {r \in Requests : pc[r] \in {"save", "mark"}}

\* A request arrives.  Those that would run a pass stop at MaxTick.
Receive(r) ==
    /\ Goto(r, "idle", "handle")
    /\ \E q \in RequestBodies :
        /\ q.route \in {"save", "state", "forbidden"} \/ tick < MaxTick
        /\ req' = [req EXCEPT ![r] = q]
    /\ code' = [code EXCEPT ![r] = 0]
    /\ body' = [body EXCEPT ![r] = 0]
    /\ wrote' = [wrote EXCEPT ![r] = 0]
    /\ UNCHANGED <<sheetVars, diskVars, historyVars>>

Handling(r, route) == pc[r] = "handle" /\ req[r].route = route

\* guardCSRF answers a cross-site request that is not a GET or a HEAD.
Forbid(r) ==
    /\ Handling(r, "forbidden")
    /\ Goto(r, "handle", "idle")
    /\ Answer(r, 403)
    /\ UNCHANGED <<sheetVars, diskVars, req, body, wrote, historyVars>>

\* decode, the negative-index guard and structuralEdit's unknown op answer
\* before the session is touched.
RefuseRequest(r) ==
    /\ Handling(r, "cell") \/ Handling(r, "structure")
    /\ req[r].edit = BadRequest
    /\ Goto(r, "handle", "idle")
    /\ Answer(r, 400)
    /\ UNCHANGED <<sheetVars, diskVars, req, body, wrote, historyVars>>

\* handleCell: SetCell refused, 422.
RejectCell(r) ==
    /\ Handling(r, "cell")
    /\ req[r].edit # BadRequest
    /\ Apply(doc, req[r].edit) = Rejected
    /\ Goto(r, "handle", "idle")
    /\ Answer(r, 422)
    /\ UNCHANGED <<sheetVars, diskVars, req, body, wrote, historyVars>>

\* SetCell or applyStructure's session call; the answer is another call.
EditSheet(r) ==
    /\ Handling(r, "cell") \/ Handling(r, "structure")
    /\ req[r].edit \in Edits
    /\ Edit(req[r].edit)
    /\ Goto(r, "handle", "snapshot")
    /\ wrote' = [wrote EXCEPT ![r] = tick]
    /\ overlapped' = [q \in Requests |-> overlapped[q] \/ q \in Saving]
    /\ UNCHANGED <<diskVars, req, code, body, raced>>

\* fillFromNeighbor on the edge of the grid does nothing, and is answered.
SkipFill(r) ==
    /\ Handling(r, "structure")
    /\ req[r].edit = EdgeFill
    /\ Goto(r, "handle", "snapshot")
    /\ UNCHANGED <<sheetVars, diskVars, req, code, body, wrote, historyVars>>

\* handleCell and handleStructure answer with a Snapshot of their own.
AnswerEdit(r) ==
    /\ Goto(r, "snapshot", "idle")
    /\ UNCHANGED <<sheetVars, diskVars, req, wrote, historyVars>>
    /\ AnswerState(r)

\* handleState
AnswerSnapshot(r) ==
    /\ Handling(r, "state")
    /\ Goto(r, "handle", "idle")
    /\ UNCHANGED <<sheetVars, diskVars, req, wrote, historyVars>>
    /\ AnswerState(r)

\* handleRecompute and handleRefreshImports answer from the call itself.
AnswerRecompute(r) ==
    /\ Handling(r, "recompute")
    /\ Goto(r, "handle", "idle")
    /\ Recompute
    /\ AnswerState(r)
    /\ UNCHANGED <<diskVars, req, wrote, historyVars>>

\* handleSave: srv.save() evaluates sess.Source() ...
TakeSource(r) ==
    /\ Handling(r, "save")
    /\ Goto(r, "handle", "save")
    /\ Disk!BeginSave(r, doc)
    /\ overlapped' = [q \in Requests |->
            IF q = r THEN Saving # {} ELSE overlapped[q] \/ q \in Saving]
    /\ UNCHANGED <<sheetVars, req, code, body, wrote, raced>>

\* ... and replaces the file with it, or fails to.
WriteFile(r) ==
    /\ pc[r] = "save"
    /\ Disk!Replace(r) \/ Disk!Refuse(r)
    /\ UNCHANGED <<sheetVars, handlerVars, historyVars>>

\* Mutated: MarkSaved runs whatever save returned.
AnswerSaveErrorMarks(r) ==
    /\ Goto(r, "save", "idle")
    /\ Disk!ReturnErr(r)
    /\ MarkSaved
    /\ Answer(r, 500)
    /\ UNCHANGED <<req, body, wrote, historyVars>>

\* if err := srv.save(); err != nil: 500, and the dirty flag stays.
AnswerSaveError(r) ==
    /\ Goto(r, "save", "idle")
    /\ Disk!ReturnErr(r)
    /\ Answer(r, 500)
    /\ UNCHANGED <<sheetVars, req, body, wrote, historyVars>>

SaveReturns(r) ==
    /\ Goto(r, "save", "mark")
    /\ Disk!ReturnNil(r)
    /\ UNCHANGED <<sheetVars, req, code, body, wrote, historyVars>>

\* srv.session.MarkSaved(), then 200.
AnswerSaved(r) ==
    /\ Goto(r, "mark", "idle")
    /\ MarkSaved
    /\ Answer(r, 200)
    /\ raced' = overlapped[r]
    /\ UNCHANGED <<diskVars, req, body, wrote, overlapped>>

\* The process is killed, and tsv serve is started again on the file.
Restart ==
    /\ doc' = file
    /\ isDirty' = FALSE
    /\ computed' = Pass(file, 0)
    /\ tick' = 1
    /\ pc' = [r \in Requests |-> "idle"]
    /\ req' = [r \in Requests |-> [route |-> "state"]]
    /\ code' = [r \in Requests |-> 0]
    /\ body' = [r \in Requests |-> 0]
    /\ wrote' = [r \in Requests |-> 0]
    /\ overlapped' = [r \in Requests |-> FALSE]
    /\ raced' = FALSE
    /\ asked' = [r \in Requests |-> NoDoc]
    /\ status' = [r \in Requests |-> "idle"]
    /\ UNCHANGED file

Handle(r) ==
    \/ Forbid(r)
    \/ RefuseRequest(r)
    \/ RejectCell(r)
    \/ EditSheet(r)
    \/ SkipFill(r)
    \/ AnswerEdit(r)
    \/ AnswerSnapshot(r)
    \/ AnswerRecompute(r)
    \/ TakeSource(r)
    \/ WriteFile(r)
    \/ AnswerSaveError(r)
    \/ SaveReturns(r)
    \/ AnswerSaved(r)

Next == (\E r \in Requests : Receive(r) \/ Handle(r)) \/ Restart

Spec == Init /\ [][Next]_vars
-----------------------------------------------------------------------------
\* "handleSave persists the spreadsheet and clears the dirty flag", MarkSaved
\* "clears the dirty flag after a frontend persists the spreadsheet": a session
\* that shows no unsaved changes is the file.
CleanMeansSaved == ~isDirty => file = doc

\* What the handlers do guarantee: it is so unless an edit, or another save,
\* fell between the Source and the MarkSaved of the save that cleared the flag.
CleanUnlessRaced == ~isDirty /\ ~raced => file = doc

\* An edit answered 200 shows the client a pass that includes its edit, though
\* the answer is a second call on the session and others edit in between.
ReadYourWrite ==
    \A r \in Requests : pc[r] = "idle" /\ wrote[r] # 0 => body[r] >= wrote[r]

\* The saver runs inside handleSave, and nowhere else.
SaverInHandler ==
    \A r \in Requests :
        /\ pc[r] = "save" =>
            /\ status[r] \in {"saving", "replaced", "refused"}
            /\ asked[r] \in Docs
        /\ pc[r] # "save" => status[r] = "idle"

\* A save that nothing overlapped is the only one, took the document as it
\* still is, and once written is the file.
SoleSave ==
    \A r \in Saving : ~overlapped[r] =>
        /\ Saving = {r}
        /\ pc[r] = "save" => asked[r] = doc
        /\ pc[r] = "mark" \/ status[r] = "replaced" => file = doc

\* A save about to write an outdated source is not one the flag will vouch for.
LateWrite ==
    \A r \in Requests : status[r] = "saving" /\ asked[r] # doc => isDirty \/ raced

\* The pass of an accepted edit is behind the present one or is the present one.
PassReached ==
    /\ tick = computed.tick + 1
    /\ \A r \in Requests :
        /\ wrote[r] <= computed.tick
        /\ pc[r] \in {"handle", "save", "mark"} => wrote[r] = 0

IInv ==
    /\ TypeOK
    /\ SaverInHandler
    /\ SoleSave
    /\ LateWrite
    /\ CleanUnlessRaced
    /\ PassReached
    /\ ReadYourWrite
=============================================================================
