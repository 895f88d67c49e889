----------------------------- MODULE ServeProofs -----------------------------
(***************************************************************************)
(* For any number of concurrent requests: a clean session is the file      *)
(* unless the save that cleaned it was raced, and an edit's answer shows   *)
(* the edit.  For any number of requests a page has in flight, and of      *)
(* cells: it shows the session when no request met another.  The two are   *)
(* apart: Serve has the requests of all pages, step by step.               *)
(***************************************************************************)
EXTENDS Serve, Browser, TLAPS

LEMMA InitIInv == Init => IInv
<1> SUFFICES ASSUME Init PROVE IInv
    OBVIOUS
<1> USE EngineAssumption, ServeAssumption
    DEF Init, SheetInit, Disk!SaveInit, Pass, Saving
<1>1. TypeOK
    BY DEF TypeOK, SheetTypeOK, Disk!SaveTypeOK, RequestBodies
<1>2. SaverInHandler /\ SoleSave /\ LateWrite /\ CleanUnlessRaced
    BY DEF SaverInHandler, SoleSave, LateWrite, CleanUnlessRaced
<1>3. PassReached /\ ReadYourWrite
    BY DEF PassReached, ReadYourWrite
<1> QED
    BY <1>1, <1>2, <1>3 DEF IInv

\* The engine's answer to a request's edit, when it accepts it.
LEMMA AcceptedEdit ==
    ASSUME TypeOK, NEW r \in Requests, EditSheet(r)
    PROVE  /\ doc' \in Docs
           /\ isDirty' = TRUE
           /\ computed' = [doc |-> doc', tick |-> tick]
           /\ tick' = tick + 1
<1>1. req[r].edit \in Edits
    BY DEF EditSheet
<1>2. Apply(doc, req[r].edit) \in Docs \cup {Rejected}
    BY <1>1, EngineAssumption DEF TypeOK, SheetTypeOK, Edits
<1> QED
    BY <1>2 DEF EditSheet, Edit, Recomputed, Pass

\* Every step keeps the types.
LEMMA StepTypeOK == IInv /\ [Next]_vars => TypeOK'
<1> SUFFICES ASSUME IInv, [Next]_vars PROVE TypeOK'
    OBVIOUS
<1> USE EngineAssumption, ServeAssumption
    DEF IInv, TypeOK, SheetTypeOK, Disk!SaveTypeOK, Goto, Answer, AnswerState,
        Handling, sheetVars, diskVars, handlerVars, historyVars, Disk!Becomes
<1>1. ASSUME NEW r \in Requests, Receive(r) PROVE TypeOK'
    BY <1>1 DEF Receive
<1>2. ASSUME NEW r \in Requests, Forbid(r) \/ RefuseRequest(r) PROVE TypeOK'
    BY <1>2 DEF Forbid, RefuseRequest
<1>3. ASSUME NEW r \in Requests, RejectCell(r) PROVE TypeOK'
    BY <1>3 DEF RejectCell
<1>4. ASSUME NEW r \in Requests, EditSheet(r) PROVE TypeOK'
    <2>1. SheetTypeOK'
        <3>1. /\ doc' \in Docs
              /\ isDirty' = TRUE
              /\ computed' = [doc |-> doc', tick |-> tick]
              /\ tick' = tick + 1
            <4> HIDE DEF Goto, Handling
            <4> QED
                BY <1>4, AcceptedEdit
        <3> QED
            BY <3>1
    <2>2. overlapped' \in [Requests -> BOOLEAN]
        BY <1>4, Zenon DEF EditSheet
    <2>3. /\ UNCHANGED <<file, asked, status, req, code, body, raced>>
          /\ pc' = [pc EXCEPT ![r] = "snapshot"]
          /\ wrote' = [wrote EXCEPT ![r] = tick]
        BY <1>4 DEF EditSheet
    <2> QED
        BY <2>1, <2>2, <2>3
<1>5. ASSUME NEW r \in Requests, SkipFill(r) PROVE TypeOK'
    BY <1>5 DEF SkipFill
<1>6. ASSUME NEW r \in Requests, AnswerEdit(r) PROVE TypeOK'
    BY <1>6 DEF AnswerEdit
<1>7. ASSUME NEW r \in Requests, AnswerSnapshot(r) PROVE TypeOK'
    BY <1>7 DEF AnswerSnapshot
<1>8. ASSUME NEW r \in Requests, AnswerRecompute(r) PROVE TypeOK'
    BY <1>8 DEF AnswerRecompute, Recompute, Recomputed, Pass
<1>9. ASSUME NEW r \in Requests, TakeSource(r) PROVE TypeOK'
    BY <1>9 DEF TakeSource, Disk!BeginSave
<1>10. ASSUME NEW r \in Requests, WriteFile(r) PROVE TypeOK'
    <2>1. asked[r] \in Docs
        BY <1>10 DEF WriteFile, SaverInHandler
    <2> QED
        BY <1>10, <2>1 DEF WriteFile, Disk!Replace, Disk!Refuse
<1>11. ASSUME NEW r \in Requests, AnswerSaveError(r) PROVE TypeOK'
    BY <1>11 DEF AnswerSaveError, Disk!ReturnErr, Disk!Leave
<1>12. ASSUME NEW r \in Requests, SaveReturns(r) PROVE TypeOK'
    BY <1>12 DEF SaveReturns, Disk!ReturnNil, Disk!Leave
<1>13. ASSUME NEW r \in Requests, AnswerSaved(r) PROVE TypeOK'
    BY <1>13 DEF AnswerSaved, MarkSaved
<1>14. CASE Restart
    <2>1. file \in Docs
        OBVIOUS
    <2>2. SheetTypeOK' /\ file' = file
        BY <1>14, <2>1 DEF Restart, Pass
    <2>3. [route |-> "state"] \in RequestBodies
        BY DEF RequestBodies
    <2>4. /\ pc' = [r \in Requests |-> "idle"]
          /\ req' = [r \in Requests |-> [route |-> "state"]]
          /\ code' = [r \in Requests |-> 0]
          /\ body' = [r \in Requests |-> 0]
          /\ wrote' = [r \in Requests |-> 0]
          /\ overlapped' = [r \in Requests |-> FALSE]
          /\ raced' = FALSE
        BY <1>14 DEF Restart
    <2>5. Disk!SaveTypeOK'
        BY <1>14, <2>2 DEF Restart
    <2> QED
        BY <2>2, <2>3, <2>4, <2>5
<1>15. CASE UNCHANGED vars
    BY <1>15 DEF vars
<1> QED
    BY <1>1, <1>2, <1>3, <1>4, <1>5, <1>6, <1>7, <1>8, <1>9, <1>10, <1>11,
       <1>12, <1>13, <1>14, <1>15 DEF Next, Handle

\* What the save window and the dirty flag depend on.
SaveParts == SaverInHandler /\ SoleSave /\ LateWrite /\ CleanUnlessRaced

\* A step outside the save window: the handler r moves between points that are
\* not in it, and nothing the window speaks of changes.
Outside(r) ==
    /\ UNCHANGED <<doc, isDirty, file, asked, status, overlapped, raced>>
    /\ \E from, to \in {"idle", "handle", "snapshot"} : Goto(r, from, to)

LEMMA OutsideSaves ==
    ASSUME IInv, NEW r \in Requests, Outside(r)
    PROVE  SaveParts'
<1> USE DEF IInv, TypeOK, Outside, Goto
<1>1. \A q \in Requests : q # r => pc'[q] = pc[q]
    OBVIOUS
<1>2. pc[r] \notin {"save", "mark"} /\ pc'[r] \notin {"save", "mark"}
    OBVIOUS
<1>3. Saving' = Saving
    BY <1>1, <1>2 DEF Saving
<1>4. SaverInHandler'
    BY <1>1, <1>2 DEF SaverInHandler
<1>5. SoleSave'
    BY <1>1, <1>2, <1>3 DEF SoleSave, Saving
<1>6. LateWrite' /\ CleanUnlessRaced'
    BY DEF LateWrite, CleanUnlessRaced
<1> QED
    BY <1>4, <1>5, <1>6 DEF SaveParts

\* Every step keeps the save window in order.
LEMMA StepSaves == IInv /\ [Next]_vars => SaveParts'
<1> SUFFICES ASSUME IInv, [Next]_vars PROVE SaveParts'
    OBVIOUS
<1> USE DEF IInv, SaveParts
<1>1. ASSUME NEW r \in Requests,
             \/ Receive(r) \/ Forbid(r) \/ RefuseRequest(r) \/ RejectCell(r) \/ SkipFill(r)
             \/ AnswerEdit(r) \/ AnswerSnapshot(r) \/ AnswerRecompute(r)
      PROVE  SaveParts'
    <2>1. Outside(r)
        BY <1>1 DEF Outside, Receive, Forbid, RefuseRequest, RejectCell, SkipFill,
           AnswerEdit, AnswerSnapshot, AnswerRecompute, Recompute, sheetVars,
           diskVars, historyVars
    <2> QED
        BY <2>1, OutsideSaves
<1>2. ASSUME NEW r \in Requests, EditSheet(r) PROVE SaveParts'
    \* Every save in the window is overlapped from now on, and the session dirty.
    <2>1. isDirty' /\ UNCHANGED <<file, asked, status, raced>>
        BY <1>2 DEF EditSheet, Edit, diskVars
    <2>2. pc[r] = "handle" /\ pc' = [pc EXCEPT ![r] = "snapshot"]
        BY <1>2 DEF EditSheet, Goto
    <2>3. Saving' = Saving
        BY <2>2 DEF Saving, TypeOK
    <2>4. \A q \in Saving : overlapped'[q]
        BY <1>2, Zenon DEF EditSheet, Saving
    <2>5. SaverInHandler'
        BY <2>1, <2>2 DEF SaverInHandler, TypeOK
    <2>6. SoleSave' /\ LateWrite' /\ CleanUnlessRaced'
        BY <2>1, <2>3, <2>4 DEF SoleSave, LateWrite, CleanUnlessRaced
    <2> QED
        BY <2>5, <2>6
<1>3. ASSUME NEW r \in Requests, TakeSource(r) PROVE SaveParts'
    <2>1. /\ UNCHANGED <<doc, isDirty, file, raced>>
          /\ pc[r] = "handle" /\ pc' = [pc EXCEPT ![r] = "save"]
          /\ status' = [status EXCEPT ![r] = "saving"]
          /\ asked' = [asked EXCEPT ![r] = doc]
        BY <1>3 DEF TakeSource, Goto, Disk!BeginSave, Disk!Becomes, sheetVars
    <2>2. Saving' = Saving \cup {r} /\ r \notin Saving
        BY <2>1 DEF Saving, TypeOK
    <2>3. \A q \in Saving' : ~overlapped'[q] => Saving' = {r} /\ q = r
        <3>1. \A q \in Requests : q # r /\ q \in Saving => overlapped'[q]
            BY <1>3, Zenon DEF TakeSource
        <3>2. Saving # {} => overlapped'[r]
            BY <1>3, Zenon DEF TakeSource
        <3> QED
            BY <3>1, <3>2, <2>2 DEF Saving
    <2>4. SaverInHandler'
        BY <2>1 DEF SaverInHandler, TypeOK, SheetTypeOK, Disk!SaveTypeOK
    <2>5. SoleSave'
        BY <2>1, <2>3 DEF SoleSave, TypeOK, Disk!SaveTypeOK
    <2>6. LateWrite' /\ CleanUnlessRaced'
        BY <2>1 DEF LateWrite, CleanUnlessRaced, TypeOK, Disk!SaveTypeOK
    <2> QED
        BY <2>4, <2>5, <2>6
<1>4. ASSUME NEW r \in Requests, WriteFile(r), Disk!Replace(r) PROVE SaveParts'
    <2>1. /\ UNCHANGED <<doc, isDirty, asked, pc, overlapped, raced>>
          /\ pc[r] = "save" /\ status[r] = "saving"
          /\ status' = [status EXCEPT ![r] = "replaced"]
          /\ file' = asked[r]
        BY <1>4 DEF WriteFile, Disk!Replace, Disk!Becomes, sheetVars, handlerVars, historyVars
    <2>2. Saving' = Saving /\ r \in Saving
        BY <2>1 DEF Saving
    <2>3. SaverInHandler'
        BY <2>1 DEF SaverInHandler, TypeOK, Disk!SaveTypeOK
    <2>4. SoleSave'
        BY <2>1, <2>2 DEF SoleSave, TypeOK, Disk!SaveTypeOK
    <2>5. LateWrite' /\ CleanUnlessRaced'
        BY <2>1 DEF LateWrite, CleanUnlessRaced, TypeOK, Disk!SaveTypeOK
    <2> QED
        BY <2>3, <2>4, <2>5
<1>5. ASSUME NEW r \in Requests, WriteFile(r), Disk!Refuse(r) PROVE SaveParts'
    <2>1. /\ UNCHANGED <<doc, isDirty, asked, file, pc, overlapped, raced>>
          /\ pc[r] = "save"
          /\ status' = [status EXCEPT ![r] = "refused"]
        BY <1>5 DEF WriteFile, Disk!Refuse, Disk!Becomes, sheetVars, handlerVars, historyVars
    <2>2. Saving' = Saving
        BY <2>1 DEF Saving
    <2> QED
        BY <2>1, <2>2 DEF SaverInHandler, SoleSave, LateWrite, CleanUnlessRaced,
           TypeOK, Disk!SaveTypeOK
<1>6. ASSUME NEW r \in Requests, AnswerSaveError(r) PROVE SaveParts'
    <2>1. /\ UNCHANGED <<doc, isDirty, file, overlapped, raced>>
          /\ pc[r] = "save" /\ pc' = [pc EXCEPT ![r] = "idle"]
          /\ status' = [status EXCEPT ![r] = "idle"]
          /\ asked' = [asked EXCEPT ![r] = NoDoc]
        BY <1>6 DEF AnswerSaveError, Goto, Disk!ReturnErr, Disk!Leave,
           Disk!Becomes, sheetVars, historyVars
    <2>2. Saving' = Saving \ {r} /\ r \in Saving
        BY <2>1 DEF Saving, TypeOK
    <2> QED
        BY <2>1, <2>2 DEF SaverInHandler, SoleSave, LateWrite, CleanUnlessRaced,
           TypeOK, Disk!SaveTypeOK
<1>7. ASSUME NEW r \in Requests, SaveReturns(r) PROVE SaveParts'
    <2>1. /\ UNCHANGED <<doc, isDirty, file, overlapped, raced>>
          /\ pc[r] = "save" /\ pc' = [pc EXCEPT ![r] = "mark"]
          /\ status[r] = "replaced" /\ status' = [status EXCEPT ![r] = "idle"]
          /\ asked' = [asked EXCEPT ![r] = NoDoc]
        BY <1>7 DEF SaveReturns, Goto, Disk!ReturnNil, Disk!Leave,
           Disk!Becomes, sheetVars, historyVars
    <2>2. Saving' = Saving /\ r \in Saving
        BY <2>1 DEF Saving, TypeOK
    <2>3. SaverInHandler'
        BY <2>1 DEF SaverInHandler, TypeOK, Disk!SaveTypeOK
    <2>4. SoleSave'
        BY <2>1, <2>2 DEF SoleSave, TypeOK, Disk!SaveTypeOK
    <2>5. LateWrite' /\ CleanUnlessRaced'
        BY <2>1 DEF LateWrite, CleanUnlessRaced, TypeOK, Disk!SaveTypeOK
    <2> QED
        BY <2>3, <2>4, <2>5
<1>8. ASSUME NEW r \in Requests, AnswerSaved(r) PROVE SaveParts'
    \* The flag is cleared: the file is the document if nothing overlapped r,
    \* and then no other save is about to write an outdated source.
    <2>1. /\ UNCHANGED <<doc, file, asked, status, overlapped>>
          /\ isDirty' = FALSE /\ (raced' <=> overlapped[r])
          /\ pc[r] = "mark" /\ pc' = [pc EXCEPT ![r] = "idle"]
        BY <1>8 DEF AnswerSaved, Goto, MarkSaved, diskVars
    <2>2. Saving' = Saving \ {r} /\ r \in Saving
        BY <2>1 DEF Saving, TypeOK
    <2>3. SaverInHandler'
        BY <2>1 DEF SaverInHandler, TypeOK, Disk!SaveTypeOK
    <2>4. SoleSave'
        BY <2>1, <2>2 DEF SoleSave, TypeOK, Disk!SaveTypeOK
    <2>5. ~overlapped[r] => Saving = {r} /\ file = doc
        BY <2>1, <2>2 DEF SoleSave
    <2>6. LateWrite'
        <3>1. \A q \in Requests : status[q] = "saving" => q \in Saving /\ q # r
            BY <2>1 DEF SaverInHandler, Saving
        <3> QED
            BY <2>1, <2>5, <3>1 DEF LateWrite
    <2>7. CleanUnlessRaced'
        BY <2>1, <2>5 DEF CleanUnlessRaced
    <2> QED
        BY <2>3, <2>4, <2>6, <2>7
<1>9. CASE Restart
    <2>1. /\ file' = file /\ doc' = file
          /\ pc' = [r \in Requests |-> "idle"]
          /\ status' = [r \in Requests |-> "idle"]
        BY <1>9 DEF Restart
    <2>2. Saving' = {}
        BY <2>1 DEF Saving
    <2> QED
        BY <2>1, <2>2 DEF SaverInHandler, SoleSave, LateWrite, CleanUnlessRaced
<1>10. CASE UNCHANGED vars
    BY <1>10 DEF vars, sheetVars, diskVars, handlerVars, historyVars, Saving,
       SaverInHandler, SoleSave, LateWrite, CleanUnlessRaced
<1> QED
    BY <1>1, <1>2, <1>3, <1>4, <1>5, <1>6, <1>7, <1>8, <1>9, <1>10
    DEF Next, Handle, WriteFile

\* Every step keeps an accepted edit's pass behind the present one, so that the
\* Snapshot that answers it, whenever it is taken, includes the edit.
LEMMA StepPasses == IInv /\ [Next]_vars => PassReached' /\ ReadYourWrite'
<1> SUFFICES ASSUME IInv, [Next]_vars PROVE PassReached' /\ ReadYourWrite'
    OBVIOUS
<1> USE DEF IInv, TypeOK, SheetTypeOK, PassReached, ReadYourWrite, Goto,
        Answer, AnswerState, Handling, sheetVars, handlerVars
<1>1. ASSUME NEW r \in Requests, Receive(r) PROVE PassReached' /\ ReadYourWrite'
    BY <1>1 DEF Receive
<1>2. ASSUME NEW r \in Requests, Forbid(r) \/ RefuseRequest(r) \/ RejectCell(r)
      PROVE  PassReached' /\ ReadYourWrite'
    BY <1>2 DEF Forbid, RefuseRequest, RejectCell
<1>3. ASSUME NEW r \in Requests, EditSheet(r) PROVE PassReached' /\ ReadYourWrite'
    <2>1. /\ computed' = [doc |-> doc', tick |-> tick]
          /\ tick' = tick + 1
        <3> HIDE DEF TypeOK, Goto, Handling
        <3> QED
            BY <1>3, AcceptedEdit
    <2>2. /\ pc[r] = "handle" /\ pc' = [pc EXCEPT ![r] = "snapshot"]
          /\ wrote' = [wrote EXCEPT ![r] = tick]
          /\ UNCHANGED body
        BY <1>3 DEF EditSheet
    <2> QED
        BY <2>1, <2>2
<1>4. ASSUME NEW r \in Requests, SkipFill(r) PROVE PassReached' /\ ReadYourWrite'
    BY <1>4 DEF SkipFill
<1>5. ASSUME NEW r \in Requests, AnswerEdit(r) \/ AnswerSnapshot(r)
      PROVE  PassReached' /\ ReadYourWrite'
    BY <1>5 DEF AnswerEdit, AnswerSnapshot
<1>6. ASSUME NEW r \in Requests, AnswerRecompute(r)
      PROVE  PassReached' /\ ReadYourWrite'
    BY <1>6 DEF AnswerRecompute, Recompute, Recomputed, Pass
<1>7. ASSUME NEW r \in Requests, TakeSource(r) PROVE PassReached' /\ ReadYourWrite'
    BY <1>7 DEF TakeSource
<1>8. ASSUME NEW r \in Requests, WriteFile(r) PROVE PassReached' /\ ReadYourWrite'
    BY <1>8 DEF WriteFile
<1>9. ASSUME NEW r \in Requests, AnswerSaveError(r) \/ SaveReturns(r) \/ AnswerSaved(r)
      PROVE  PassReached' /\ ReadYourWrite'
    BY <1>9 DEF AnswerSaveError, SaveReturns, AnswerSaved, MarkSaved
<1>10. CASE Restart
    BY <1>10 DEF Restart, Pass
<1>11. CASE UNCHANGED vars
    BY <1>11 DEF vars
<1> QED
    BY <1>1, <1>2, <1>3, <1>4, <1>5, <1>6, <1>7, <1>8, <1>9, <1>10, <1>11
    DEF Next, Handle

\* The inductive invariant holds throughout, restarts included.
THEOREM Invariance == Spec => []IInv
<1>1. Init => IInv
    BY InitIInv
<1>2. IInv /\ [Next]_vars => IInv'
    BY StepTypeOK, StepSaves, StepPasses DEF IInv, SaveParts
<1> QED
    BY <1>1, <1>2, PTL DEF Spec

\* A session that shows no unsaved changes is the file, unless the save that
\* cleared the flag was overlapped by an edit or by another save.
THEOREM CleanIsSaved == Spec => []CleanUnlessRaced
<1>1. IInv => CleanUnlessRaced
    BY DEF IInv
<1> QED
    BY <1>1, Invariance, PTL

\* The State that answers an edit includes that edit, whoever else edits.
THEOREM AnswersIncludeTheEdit == Spec => []ReadYourWrite
<1>1. IInv => ReadYourWrite
    BY DEF IInv
<1> QED
    BY <1>1, Invariance, PTL
-----------------------------------------------------------------------------
(* The page *)

\* What a request is as it leaves.
LEMMA Leaving ==
    ASSUME NEW k \in Kinds, NEW c \in Cells \cup {None}, NEW t \in Texts \cup {None},
           k = "cell" => c \in Cells /\ t \in Texts
    PROVE  /\ WellAsked(Request(k, c, t))
           /\ Request(k, c, t) # Idle
           /\ Request(k, c, t).kind = k /\ Request(k, c, t).answer = "none"
<1>1. Request(k, c, t).kind = k /\ Request(k, c, t).answer = "none"
    BY DEF Request
<1>2. Request(k, c, t).cell = c /\ Request(k, c, t).text = t
    BY DEF Request
<1>3. Request(k, c, t) \in Asked
    BY DEF Request, Asked
<1>4. Request(k, c, t) # Idle
    BY <1>1 DEF Idle, Kinds
<1> QED
    BY <1>1, <1>2, <1>3, <1>4 DEF WellAsked

LEMMA PlainLeaving ==
    ASSUME NEW k \in Kinds \ {"cell"}
    PROVE  /\ WellAsked(Plain(k)) /\ Plain(k) # Idle
           /\ Plain(k).kind = k /\ Plain(k).answer = "none"
BY Leaving DEF Plain

\* Whom a sending leaves in flight.
LEMMA Sending ==
    ASSUME PageTypeOK, NEW done \in SUBSET InFlight, NEW r, r # Idle, SendAfter(done, r)
    PROVE  \E q \in Slots \ (InFlight \ done) :
              /\ DOMAIN flight' = Slots
              /\ InFlight' = (InFlight \ done) \cup {q}
              /\ flight'[q] = r
              /\ \A p \in InFlight \ done : flight'[p] = flight[p]
<1>1. PICK q \in (Slots \ InFlight) \cup done :
        flight' = [p \in Slots |-> IF p = q THEN r ELSE IF p \in done THEN Idle ELSE flight[p]]
    BY DEF SendAfter
<1>2. q \in Slots \ (InFlight \ done)
    BY DEF InFlight
<1>3. DOMAIN flight' = Slots /\ flight'[q] = r
    BY <1>1, <1>2
<1>4. \A p \in Slots : p # q => flight'[p] = IF p \in done THEN Idle ELSE flight[p]
    BY <1>1
<1>5. InFlight' = (InFlight \ done) \cup {q}
    BY <1>2, <1>3, <1>4 DEF InFlight
<1>6. \A p \in InFlight \ done : flight'[p] = flight[p]
    BY <1>2, <1>4 DEF InFlight
<1> QED
    BY <1>2, <1>3, <1>5, <1>6

\* Whom an answer leaves in flight.
LEMMA Answering ==
    ASSUME PageTypeOK, NEW q \in InFlight, NEW r, flight' = [flight EXCEPT ![q] = r]
    PROVE  /\ DOMAIN flight' = Slots
           /\ InFlight' = IF r = Idle THEN InFlight \ {q} ELSE InFlight
           /\ r # Idle => flight'[q] = r
           /\ \A p \in InFlight \ {q} : flight'[p] = flight[p]
<1>1. q \in Slots /\ DOMAIN flight = Slots
    BY DEF InFlight, PageTypeOK
<1>2. DOMAIN flight' = Slots /\ flight'[q] = r
    BY <1>1
<1>3. \A p \in Slots \ {q} : flight'[p] = flight[p]
    BY <1>1
<1>4. InFlight' = IF r = Idle THEN InFlight \ {q} ELSE InFlight
    BY <1>1, <1>2, <1>3 DEF InFlight
<1> QED
    BY <1>2, <1>3, <1>4 DEF InFlight

\* A page that has just asked for the State it loads with.
LEMMA Loads ==
    ASSUME NEW f \in Loading
    PROVE  /\ DOMAIN f = Slots
           /\ \E q \in Slots : f[q] = Plain("state") /\ \A p \in Slots \ {q} : f[p] = Idle
BY DEF Loading

LEMMA Begin == PageInit => PageIInv
<1> SUFFICES ASSUME PageInit PROVE PageIInv
    OBVIOUS
<1>1. PICK q \in Slots : flight[q] = Plain("state") /\ \A p \in Slots \ {q} : flight[p] = Idle
    BY Loads DEF PageInit
<1>2. DOMAIN flight = Slots
    BY Loads DEF PageInit
<1>3. /\ WellAsked(Plain("state")) /\ Plain("state") # Idle
      /\ Plain("state").kind = "state" /\ Plain("state").answer = "none"
    BY PlainLeaving DEF Kinds
<1>4. InFlight = {q}
    BY <1>1, <1>3 DEF InFlight
<1>5. PageTypeOK
    BY <1>1, <1>2, <1>3, <1>4 DEF PageInit, PageTypeOK, States
<1>6. OneRefresh
    BY <1>1, <1>3, <1>4 DEF OneRefresh, Recomputes
<1>7. ShownIsSession /\ OneAtATime
    BY <1>1, <1>3, <1>4 DEF ShownIsSession, Quiet, OneAtATime, PageInit
<1>8. BarIsSource /\ AloneStaysAlone
    BY DEF BarIsSource, AloneStaysAlone, PageInit
<1> QED
    BY <1>5, <1>6, <1>7, <1>8 DEF PageIInv

LEMMA ReloadKeeps == PageIInv /\ Reload => PageIInv'
<1> SUFFICES ASSUME PageIInv, Reload PROVE PageIInv'
    OBVIOUS
<1>1. PICK q \in Slots :
        flight'[q] = Plain("state") /\ \A p \in Slots \ {q} : flight'[p] = Idle
    BY Loads DEF Reload
<1>2. DOMAIN flight' = Slots
    BY Loads DEF Reload
<1>3. /\ WellAsked(Plain("state")) /\ Plain("state") # Idle
      /\ Plain("state").kind = "state" /\ Plain("state").answer = "none"
    BY PlainLeaving DEF Kinds
<1>4. InFlight' = {q}
    BY <1>1, <1>3 DEF InFlight
<1>5. \A p \in InFlight' : WellAsked(flight'[p])
    BY <1>1, <1>3, <1>4
<1>6. PageTypeOK'
    BY <1>2, <1>5 DEF PageIInv, Reload, PageTypeOK, WellAsked, Asked, Blur
<1>7. OneRefresh'
    BY <1>1, <1>3, <1>4 DEF OneRefresh, Recomputes
<1>8. ShownIsSession' /\ OneAtATime'
    BY <1>1, <1>3, <1>4 DEF ShownIsSession, Quiet, OneAtATime, Reload
<1>9. BarIsSource' /\ AloneStaysAlone'
    BY DEF BarIsSource, AloneStaysAlone, Reload, Blur
<1> QED
    BY <1>6, <1>7, <1>8, <1>9 DEF PageIInv

\* The invariant as far as the requests in flight go.
Flights ==
    /\ DOMAIN flight = Slots /\ (\A q \in InFlight : WellAsked(flight[q]))
    /\ crossed \in BOOLEAN
    /\ OneRefresh /\ ShownIsSession /\ OneAtATime

\* A request that leaves, alone or in place of those done, does so from a page
\* that shows the session, but for one that asks for the State.
LEMMA SendKeeps ==
    ASSUME PageIInv, NEW done \in SUBSET InFlight, NEW r, WellAsked(r), r # Idle,
    r.answer = "none",
           SendAfter(done, r), session' = session,
           timer' \/ r.kind = "recompute" => Recomputes \subseteq done,
           ~(timer' /\ r.kind = "recompute"),
           ~crossed /\ InFlight = done /\ r.kind # "state" => shown' = session,
           ~crossed /\ InFlight = done /\ r.kind = "state"
                => shown' = None \/ shown'.doc = session.doc
    PROVE  Flights' /\ InFlight' # {}
<1>1. PICK q \in Slots \ (InFlight \ done) :
        /\ DOMAIN flight' = Slots
        /\ InFlight' = (InFlight \ done) \cup {q}
        /\ flight'[q] = r
        /\ \A p \in InFlight \ done : flight'[p] = flight[p]
    BY Sending DEF PageIInv
<1>2. /\ crossed' = (crossed \/ InFlight \ done # {})
      /\ crossed' \in BOOLEAN
    BY DEF SendAfter, PageIInv, PageTypeOK
<1>3. \A p \in InFlight' : WellAsked(flight'[p])
    BY <1>1 DEF PageIInv, PageTypeOK
<1>4. OneRefresh'
    BY <1>1 DEF PageIInv, OneRefresh, Recomputes
<1>5. ShownIsSession'
    BY <1>1 DEF ShownIsSession, Quiet
<1>6. OneAtATime'
    <2> SUFFICES ASSUME ~crossed' PROVE OneAtATime'
        BY DEF OneAtATime
    <2>1. ~crossed /\ InFlight = done /\ InFlight' = {q}
        BY <1>1, <1>2
    <2>2. session \in States /\ session # None
        BY BrowserAssumption DEF PageIInv, PageTypeOK
    <2>3. r.kind # "state" => shown' = session /\ shown' # None
        BY <2>1, <2>2
    <2>4. shown' # None => shown'.doc = session.doc
        BY <2>1, <2>3
    <2> QED
        BY <1>1, <2>1, <2>3, <2>4 DEF OneAtATime
<1> QED
    BY <1>1, <1>2, <1>3, <1>4, <1>5, <1>6 DEF Flights, WellAsked

\* The same of a request of its own, sent with nothing else changed.
LEMMA SendAloneKeeps ==
    ASSUME PageIInv, NEW r, WellAsked(r), r # Idle, r.answer = "none", r.kind # "state",
           Send(r), UNCHANGED <<session, shown>>,
           r.kind # "recompute" => timer' = timer,
           r.kind = "recompute" => timer /\ ~timer'
    PROVE  Flights' /\ InFlight' # {}
<1>1. {} \in SUBSET InFlight /\ SendAfter({}, r)
    BY DEF Send
<1>2. timer' \/ r.kind = "recompute" => Recomputes \subseteq {}
    BY DEF PageIInv, OneRefresh
<1>3. ~crossed /\ InFlight = {} => shown' = session
    BY DEF PageIInv, ShownIsSession, Quiet
<1> QED
    BY <1>1, <1>2, <1>3, SendKeeps

\* What touches no request, State or timer.
LEMMA FlightsStay ==
    PageIInv /\ UNCHANGED <<session, flight, timer, shown, crossed>> => Flights'
BY DEF PageIInv, PageTypeOK, Flights, OneRefresh, Recomputes, ShownIsSession, Quiet, OneAtATime,
       InFlight

LEMMA SourceIs ==
    ASSUME PageTypeOK, NEW c \in Cells
    PROVE  /\ Source(c) \in Texts \cup {None}
           /\ Source(c) # None => shown # None /\ Source(c) = shown.doc[c]
BY DEF PageTypeOK, Source, States, Sheets

LEMMA SelectKeeps == ASSUME PageIInv, NEW c \in Cells, Select(c) PROVE PageIInv'
<1>1. Flights'
    BY FlightsStay DEF Select
<1>2. /\ Source(c) \in Texts \cup {None}
      /\ Source(c) # None => shown # None /\ Source(c) = shown.doc[c]
    BY SourceIs DEF PageIInv
<1>3. PageTypeOK'
    BY <1>1, <1>2 DEF Flights, PageIInv, PageTypeOK, Select, editorVars
<1>4. BarIsSource'
    BY <1>2 DEF BarIsSource, Select
<1>5. AloneStaysAlone'
    BY DEF PageIInv, AloneStaysAlone, Select, InFlight, editorVars
<1> QED
    BY <1>1, <1>3, <1>4, <1>5 DEF PageIInv, Flights

LEMMA FocusKeeps ==
    ASSUME PageIInv, NEW to, Focus(to), UNCHANGED <<session, flight, timer, shown, crossed>>,
           inputs' \in SUBSET Cells, to \in inputs' \cup {Bar},
           \/ UNCHANGED barVars
           \/ sel' \in Cells /\ bar' = Source(sel')
    PROVE  PageIInv'
<1>1. Flights'
    BY FlightsStay
<1>2. ASSUME sel' \in Cells, bar' = Source(sel')
      PROVE  bar' \in Texts \cup {None} /\ (bar' # None => shown # None /\ bar' = shown.doc[sel'])
    BY <1>2, SourceIs DEF PageIInv
<1>3. focus' = to /\ alone' = (InFlight = {})
    BY DEF Focus
<1>4. alone' \in BOOLEAN
    BY <1>3
<1>5. sel' \in Cells /\ bar' \in Texts \cup {Typed, None}
    <2>1. ASSUME UNCHANGED barVars PROVE sel' \in Cells /\ bar' \in Texts \cup {Typed, None}
        BY <2>1 DEF PageIInv, PageTypeOK, barVars
    <2> QED
        BY <1>2, <2>1
<1>6. PageTypeOK'
    BY <1>1, <1>3, <1>4, <1>5 DEF Flights, PageIInv, PageTypeOK
<1>7. BarIsSource'
    <2>1. ASSUME UNCHANGED barVars PROVE BarIsSource'
        BY <2>1 DEF PageIInv, BarIsSource, barVars
    <2>2. ASSUME sel' \in Cells, bar' = Source(sel') PROVE BarIsSource'
        BY <1>2, <2>2 DEF BarIsSource
    <2> QED
        BY <2>1, <2>2
<1>8. AloneStaysAlone'
    BY <1>3 DEF AloneStaysAlone, InFlight
<1> QED
    BY <1>1, <1>6, <1>7, <1>8 DEF PageIInv, Flights

LEMMA EditInCellKeeps == PageIInv /\ EditInCell => PageIInv'
<1>1. PageIInv /\ EditInCell => inputs' \in SUBSET Cells /\ sel \in inputs'
    BY DEF EditInCell, PageIInv, PageTypeOK
<1> QED
    BY <1>1, FocusKeeps DEF EditInCell

LEMMA RefocusKeeps == ASSUME PageIInv, NEW c \in Cells, Refocus(c) PROVE PageIInv'
<1>1. inputs' \in SUBSET Cells /\ c \in inputs' /\ sel' \in Cells /\ bar' = Source(sel')
    BY DEF Refocus, PageIInv, PageTypeOK
<1> QED
    BY <1>1, FocusKeeps DEF Refocus

LEMMA FocusBarKeeps == PageIInv /\ FocusBar => PageIInv'
<1>1. PageIInv /\ FocusBar => inputs' \in SUBSET Cells
    BY DEF FocusBar, PageIInv, PageTypeOK
<1> QED
    BY <1>1, FocusKeeps DEF FocusBar

LEMMA TypeInBarKeeps == PageIInv /\ TypeInBar => PageIInv'
<1> SUFFICES ASSUME PageIInv, TypeInBar PROVE PageIInv'
    OBVIOUS
<1>1. Flights'
    BY FlightsStay DEF TypeInBar
<1>2. sel \in Cells
    BY DEF PageIInv, PageTypeOK
<1>3. /\ Source(sel) \in Texts \cup {None}
      /\ Source(sel) # None => shown # None /\ Source(sel) = shown.doc[sel]
    BY <1>2, SourceIs DEF PageIInv
<1>4. PageTypeOK'
    BY <1>1, <1>3 DEF Flights, PageIInv, PageTypeOK, TypeInBar, editorVars
<1>5. BarIsSource'
    BY <1>3 DEF BarIsSource, TypeInBar
<1>6. AloneStaysAlone'
    BY DEF PageIInv, AloneStaysAlone, TypeInBar, InFlight, editorVars
<1> QED
    BY <1>1, <1>4, <1>5, <1>6 DEF PageIInv, Flights

LEMMA LeaveBarKeeps == PageIInv /\ LeaveBar => PageIInv'
<1> SUFFICES ASSUME PageIInv, LeaveBar PROVE PageIInv'
    OBVIOUS
<1>1. Flights'
    BY FlightsStay DEF LeaveBar
<1>2. PageTypeOK' /\ BarIsSource' /\ AloneStaysAlone'
    BY <1>1 DEF Flights, PageIInv, PageTypeOK, BarIsSource, AloneStaysAlone, LeaveBar, Blur,
       barVars
<1> QED
    BY <1>1, <1>2 DEF PageIInv, Flights

LEMMA ToggleRevealKeeps == PageIInv /\ ToggleReveal => PageIInv'
<1> SUFFICES ASSUME PageIInv, ToggleReveal PROVE PageIInv'
    OBVIOUS
<1>1. Flights'
    BY FlightsStay DEF ToggleReveal
<1>2. PageTypeOK' /\ BarIsSource' /\ AloneStaysAlone'
    BY <1>1 DEF Flights, PageIInv, PageTypeOK, BarIsSource, AloneStaysAlone, ToggleReveal,
       barVars
<1> QED
    BY <1>1, <1>2 DEF PageIInv, Flights

\* crossed is never reset but by a reload.
LEMMA BarStays ==
    ASSUME PageIInv, UNCHANGED <<barVars, shown>>, crossed => crossed'
    PROVE  BarIsSource'
BY DEF PageIInv, BarIsSource, barVars

LEMMA CommitKeeps == PageIInv /\ Commit => PageIInv'
<1> SUFFICES ASSUME PageIInv, Commit PROVE PageIInv'
    OBVIOUS
<1>1. PICK t \in Texts : Send(Request("cell", focus, t))
    BY DEF Commit
<1> DEFINE r == Request("cell", focus, t)
<1>2. WellAsked(r) /\ r # Idle /\ r.kind = "cell" /\ r.answer = "none"
    BY Leaving DEF Kinds, Commit
<1> HIDE DEF r
<1>3. Flights'
    BY <1>1, <1>2, SendAloneKeeps DEF Commit, r
<1>4. crossed => crossed'
    BY <1>1 DEF Send, SendAfter
<1>5. PageTypeOK' /\ AloneStaysAlone'
    BY <1>3 DEF Flights, PageIInv, PageTypeOK, AloneStaysAlone, Commit, Blur, barVars
<1>6. BarIsSource'
    BY <1>4, BarStays DEF Commit
<1> QED
    BY <1>3, <1>5, <1>6 DEF PageIInv, Flights

LEMMA EnterBarKeeps == PageIInv /\ EnterBar => PageIInv'
<1> SUFFICES ASSUME PageIInv, EnterBar PROVE PageIInv'
    OBVIOUS
<1>1. PICK t \in Texts : Send(Request("cell", sel, t))
    BY BrowserAssumption DEF EnterBar, PageIInv, PageTypeOK
<1> DEFINE r == Request("cell", sel, t)
<1>2. WellAsked(r) /\ r # Idle /\ r.kind = "cell" /\ r.answer = "none"
    BY Leaving DEF Kinds, PageIInv, PageTypeOK
<1> HIDE DEF r
<1>3. Flights'
    BY <1>1, <1>2, SendAloneKeeps DEF EnterBar, r
<1>4. crossed => crossed'
    BY <1>1 DEF Send, SendAfter
<1>5. PageTypeOK' /\ AloneStaysAlone'
    BY <1>3 DEF Flights, PageIInv, PageTypeOK, AloneStaysAlone, EnterBar, barVars
<1>6. BarIsSource'
    BY <1>4, BarStays DEF EnterBar
<1> QED
    BY <1>3, <1>5, <1>6 DEF PageIInv, Flights

LEMMA UseControlKeeps == PageIInv /\ UseControl => PageIInv'
<1> SUFFICES ASSUME PageIInv, UseControl PROVE PageIInv'
    OBVIOUS
<1>1. PICK k \in {"structure", "save"} : Send(Plain(k))
    BY DEF UseControl
<1>2. WellAsked(Plain(k)) /\ Plain(k) # Idle /\ Plain(k).kind = k /\ Plain(k).answer = "none"
    BY PlainLeaving DEF Kinds
<1>3. Flights'
    BY <1>1, <1>2, SendAloneKeeps DEF UseControl
<1>4. crossed => crossed'
    BY <1>1 DEF Send, SendAfter
<1>5. PageTypeOK' /\ AloneStaysAlone'
    BY <1>3 DEF Flights, PageIInv, PageTypeOK, AloneStaysAlone, UseControl, barVars, editorVars
<1>6. BarIsSource'
    BY <1>4, BarStays DEF UseControl
<1> QED
    BY <1>3, <1>5, <1>6 DEF PageIInv, Flights

LEMMA RefreshKeeps == PageIInv /\ Refresh => PageIInv'
<1> SUFFICES ASSUME PageIInv, Refresh PROVE PageIInv'
    OBVIOUS
<1> DEFINE r == Plain("recompute")
<1>1. Send(r)
    BY DEF Refresh
<1>2. WellAsked(r) /\ r # Idle /\ r.kind = "recompute" /\ r.answer = "none"
    BY PlainLeaving DEF Kinds
<1> HIDE DEF r
<1>3. Flights'
    BY <1>1, <1>2, SendAloneKeeps DEF Refresh
<1>4. crossed => crossed'
    BY <1>1 DEF Send, SendAfter
<1>5. PageTypeOK' /\ AloneStaysAlone'
    BY <1>3 DEF Flights, PageIInv, PageTypeOK, AloneStaysAlone, Refresh, barVars, editorVars
<1>6. BarIsSource'
    BY <1>4, BarStays DEF Refresh
<1> QED
    BY <1>3, <1>5, <1>6 DEF PageIInv, Flights

\* The server's answer to a request: a refusal, or the State it leaves.
LEMMA HandleKeeps ==
    ASSUME PageIInv, NEW q \in InFlight, flight[q].answer = "none",
           NEW r, WellAsked(r), r # Idle, r.kind = flight[q].kind,
           flight' = [flight EXCEPT ![q] = r], session' \in States,
           UNCHANGED <<timer, shown, barVars, editorVars, crossed>>,
           \/ r.answer = "error" /\ session' = session /\ r.kind # "state"
           \/ /\ r.answer = "ok" /\ (r.kind # "save" => r.state = session')
              /\ r.kind \notin {"cell", "structure"} => session'.doc = session.doc
    PROVE  PageIInv'
<1>1. /\ DOMAIN flight' = Slots /\ InFlight' = InFlight /\ flight'[q] = r
      /\ \A p \in InFlight \ {q} : flight'[p] = flight[p]
    BY Answering DEF PageIInv
<1>2. \A p \in InFlight' : WellAsked(flight'[p])
    BY <1>1 DEF PageIInv, PageTypeOK
<1>3. PageTypeOK'
    BY <1>1, <1>2 DEF PageIInv, PageTypeOK, barVars, editorVars, WellAsked
<1>4. OneRefresh'
    BY <1>1 DEF PageIInv, OneRefresh, Recomputes
<1>5. ShownIsSession'
    BY <1>1 DEF ShownIsSession, Quiet
<1>6. OneAtATime'
    BY <1>1 DEF PageIInv, OneAtATime
<1>7. BarIsSource'
    BY BarStays
<1>8. AloneStaysAlone'
    BY <1>1 DEF PageIInv, AloneStaysAlone, editorVars
<1> QED
    BY <1>3, <1>4, <1>5, <1>6, <1>7, <1>8 DEF PageIInv

LEMMA AnsweredKeeps ==
    ASSUME PageIInv, NEW q \in InFlight, flight[q].answer = "none",
           NEW d \in Sheets, NEW dirty \in BOOLEAN, Answered(q, d, dirty),
           flight[q].kind \notin {"cell", "structure"} => d = session.doc
    PROVE  PageIInv'
<1> DEFINE r == [flight[q] EXCEPT !.answer = "ok",
                    !.state = IF flight[q].kind = "save" THEN None ELSE session']
<1>1. WellAsked(flight[q]) /\ q \in DOMAIN flight
    BY DEF PageIInv, PageTypeOK, InFlight
<1>2. session' = [doc |-> d, dirty |-> dirty] /\ session' \in States
    BY DEF Answered, States
<1>3. flight' = [flight EXCEPT ![q] = r]
    BY <1>1 DEF Answered
<1>4. /\ r.kind = flight[q].kind /\ r.cell = flight[q].cell /\ r.text = flight[q].text
      /\ r.answer = "ok" /\ r.state = IF flight[q].kind = "save" THEN None ELSE session'
    BY <1>1 DEF WellAsked, Asked
<1>5. r \in Asked
    BY <1>1, <1>2 DEF WellAsked, Asked
<1> HIDE DEF r
<1>6. WellAsked(r)
    BY <1>1, <1>2, <1>4, <1>5 DEF WellAsked
<1>7. r # Idle
    BY <1>1, <1>4 DEF WellAsked, Asked, Idle, Kinds
<1>8. session'.doc = d
    BY <1>2
<1>9. UNCHANGED <<timer, shown, barVars, editorVars, crossed>>
    BY DEF Answered
<1> QED
    BY <1>2, <1>3, <1>4, <1>6, <1>7, <1>8, <1>9, HandleKeeps

LEMMA RefusedKeeps ==
    ASSUME PageIInv, NEW q \in InFlight, flight[q].answer = "none",
           flight[q].kind \in {"cell", "structure", "save"}, Refused(q)
    PROVE  PageIInv'
<1> DEFINE k == flight[q].kind
           r == [Plain(k) EXCEPT !.answer = "error"]
<1>1. r = [kind |-> k, cell |-> None, text |-> None, answer |-> "error", state |-> None]
    BY DEF Plain, Request
<1>2. r.kind = k /\ r.answer = "error"
    BY <1>1
<1>3. WellAsked(r)
    BY <1>1 DEF WellAsked, Asked, Kinds
<1>4. r # Idle
    BY <1>2 DEF Idle
<1>5. flight' = [flight EXCEPT ![q] = r]
    BY DEF Refused
<1>6. session' = session /\ UNCHANGED <<timer, shown, barVars, editorVars, crossed>>
    BY DEF Refused
<1>7. session' \in States
    BY <1>6 DEF PageIInv, PageTypeOK
<1> HIDE DEF r
<1> QED
    BY <1>2, <1>3, <1>4, <1>5, <1>6, <1>7, HandleKeeps

LEMMA HandlingKeeps == ASSUME PageIInv, NEW q \in Slots, TakeUp(q) PROVE PageIInv'
<1>1. q \in InFlight /\ flight[q].answer = "none"
    BY DEF TakeUp, InFlight
<1>2. session.doc \in Sheets /\ session.dirty \in BOOLEAN
    BY DEF PageIInv, PageTypeOK, States
<1>3. CASE flight[q].kind \in {"state", "recompute"} /\ Answered(q, session.doc, session.dirty)
    BY <1>1, <1>2, <1>3, AnsweredKeeps
<1>4. CASE /\ flight[q].kind = "cell"
           /\ Answered(q, [session.doc EXCEPT ![flight[q].cell] = flight[q].text], TRUE)
    <2>1. flight[q].cell \in Cells /\ flight[q].text \in Texts
        BY <1>1, <1>4 DEF PageIInv, PageTypeOK, WellAsked
    <2>2. [session.doc EXCEPT ![flight[q].cell] = flight[q].text] \in Sheets
        BY <1>2, <2>1 DEF Sheets
    <2> QED
        BY <1>1, <1>4, <2>2, AnsweredKeeps
<1>5. CASE flight[q].kind = "structure" /\ \E d \in Sheets : Answered(q, d, TRUE)
    BY <1>1, <1>5, AnsweredKeeps
<1>6. CASE flight[q].kind = "save" /\ Answered(q, session.doc, FALSE)
    BY <1>1, <1>2, <1>6, AnsweredKeeps
<1>7. CASE flight[q].kind \in {"cell", "structure", "save"} /\ Refused(q)
    BY <1>1, <1>7, RefusedKeeps
<1> QED
    BY <1>3, <1>4, <1>5, <1>6, <1>7 DEF TakeUp

\* A request is done with, and no other leaves.
LEMMA DropKeeps ==
    ASSUME PageIInv, NEW q \in InFlight, flight' = [flight EXCEPT ![q] = Idle],
    session' = session,
           crossed' \in BOOLEAN, crossed => crossed',
           timer' => timer \/ flight[q].kind = "recompute",
           ~crossed' => shown' = session
    PROVE  Flights'
<1>1. /\ DOMAIN flight' = Slots /\ InFlight' = InFlight \ {q}
      /\ \A p \in InFlight \ {q} : flight'[p] = flight[p]
    BY Answering DEF PageIInv
<1>2. \A p \in InFlight' : WellAsked(flight'[p])
    BY <1>1 DEF PageIInv, PageTypeOK
<1>3. OneRefresh'
    BY <1>1 DEF PageIInv, OneRefresh, Recomputes
<1>4. ShownIsSession'
    BY DEF ShownIsSession, Quiet
<1>5. OneAtATime'
    BY <1>1 DEF PageIInv, OneAtATime
<1> QED
    BY <1>1, <1>2, <1>3, <1>4, <1>5 DEF Flights, WellAsked

\* A request is done with, and the blur of an input it removes may send another.
LEMMA RemoveKeeps ==
    ASSUME PageIInv, NEW q \in InFlight, NEW gone \in SUBSET Cells, Remove(q, gone),
           session' = session, ~crossed => shown' = session,
           timer' => timer \/ flight[q].kind = "recompute"
    PROVE  /\ Flights' /\ AloneStaysAlone' /\ (crossed => crossed')
           /\ inputs' \subseteq Cells /\ focus' \in inputs' \cup {Bar, None}
           /\ alone' \in BOOLEAN
<1>1. /\ inputs' \subseteq Cells /\ focus' \in inputs' \cup {Bar, None} /\ alone' \in BOOLEAN
      /\ AloneStaysAlone'
    BY DEF Remove, Blur, PageIInv, PageTypeOK, AloneStaysAlone
<1>2. ASSUME flight' = [flight EXCEPT ![q] = Idle], UNCHANGED crossed
      PROVE  Flights' /\ (crossed => crossed')
    <2>1. crossed' \in BOOLEAN
        BY <1>2 DEF PageIInv, PageTypeOK
    <2> QED
        BY <1>2, <2>1, DropKeeps
<1>3. ASSUME NEW t \in Texts, focus \in gone, SendAfter({q}, Request("cell", focus, t))
      PROVE  Flights' /\ (crossed => crossed')
    <2> DEFINE r == Request("cell", focus, t)
    <2>1. WellAsked(r) /\ r # Idle /\ r.kind = "cell" /\ r.answer = "none"
        BY <1>3, Leaving DEF Kinds
    <2> HIDE DEF r
    <2>2. timer' => Recomputes \subseteq {q}
        BY DEF PageIInv, OneRefresh, Recomputes
    <2>3. SendAfter({q}, r) /\ {q} \in SUBSET InFlight
        BY <1>3 DEF r
    <2>4. Flights'
        BY <2>1, <2>2, <2>3, SendKeeps
    <2> QED
        BY <1>3, <2>4 DEF SendAfter
<1> QED
    BY <1>1, <1>2, <1>3 DEF Remove

\* Of a request that met no other, the answer is the session.
LEMMA AnswerIsSession ==
    ASSUME PageIInv, NEW q \in InFlight, ~crossed, flight[q].answer = "ok",
    flight[q].kind # "save"
    PROVE  flight[q].state = session
BY DEF PageIInv, OneAtATime

LEMMA RenderKeeps == ASSUME PageIInv, NEW q \in InFlight, Render(q) PROVE PageIInv'
<1>1. /\ shown' = flight[q].state /\ session' = session /\ timer' = timer /\ Remove(q, Cells)
      /\ flight[q].kind \in {"state", "cell", "structure"} /\ flight[q].answer = "ok"
    BY DEF Render
<1>2. ~crossed => shown' = session
    BY <1>1, AnswerIsSession
<1>3. /\ Flights' /\ AloneStaysAlone' /\ (crossed => crossed')
      /\ inputs' \subseteq Cells /\ focus' \in inputs' \cup {Bar, None} /\ alone' \in BOOLEAN
    <2>1. Cells \in SUBSET Cells
        OBVIOUS
    <2> QED
        BY <1>1, <1>2, <2>1, RemoveKeeps
<1>4. shown' \in States /\ shown' # None /\ \A c \in Cells : shown'.doc[c] \in Texts
    BY <1>1, BrowserAssumption DEF PageIInv, PageTypeOK, WellAsked, States, Sheets
<1>5. CASE flight[q].kind \in {"cell", "structure"}
    <2>1. sel' \in Cells /\ bar' = shown'.doc[sel']
        BY <1>1, <1>5 DEF Render, SelectAgain, PageIInv, PageTypeOK, WellAsked
    <2>2. bar' \in Texts
        BY <1>4, <2>1
    <2>3. PageTypeOK'
        BY <1>1, <1>3, <1>4, <2>1, <2>2 DEF Flights, PageIInv, PageTypeOK
    <2>4. BarIsSource'
        BY <1>4, <2>1 DEF BarIsSource
    <2> QED
        BY <1>3, <2>3, <2>4 DEF PageIInv, Flights
<1>6. CASE flight[q].kind = "state"
    <2>1. UNCHANGED barVars
        BY <1>6 DEF Render, SelectAgain
    <2>2. PageTypeOK'
        BY <1>1, <1>3, <1>4, <2>1 DEF Flights, PageIInv, PageTypeOK, barVars
    <2>3. ~crossed /\ shown # None => shown.doc = session.doc
        BY <1>6 DEF PageIInv, OneAtATime
    <2>4. BarIsSource'
        BY <1>2, <1>3, <1>4, <2>1, <2>3 DEF PageIInv, BarIsSource, barVars
    <2> QED
        BY <1>3, <2>2, <2>4 DEF PageIInv, Flights
<1> QED
    BY <1>1, <1>5, <1>6

LEMMA RefreshValuesKeeps == ASSUME PageIInv, NEW q \in InFlight,
RefreshValues(q) PROVE PageIInv'
<1>1. /\ shown' = (IF shown = None THEN None ELSE flight[q].state) /\ session' = session
      /\ flight[q].kind = "recompute" /\ flight[q].answer = "ok"
      /\ timer' \in BOOLEAN /\ UNCHANGED barVars
    BY DEF RefreshValues
<1>2. ~crossed => shown' = session /\ shown.doc = session.doc
    <2>1. ~crossed => shown # None
        BY <1>1 DEF PageIInv, OneAtATime
    <2>2. ~crossed => shown.doc = session.doc
        BY <1>1, <2>1 DEF PageIInv, OneAtATime
    <2> QED
        BY <1>1, <2>1, <2>2, AnswerIsSession
<1>3. /\ Flights' /\ AloneStaysAlone' /\ (crossed => crossed')
      /\ inputs' \subseteq Cells /\ focus' \in inputs' \cup {Bar, None} /\ alone' \in BOOLEAN
    <2>1. PICK gone \in SUBSET inputs : Remove(q, gone)
        BY DEF RefreshValues
    <2>2. gone \in SUBSET Cells
        BY DEF PageIInv, PageTypeOK
    <2> QED
        BY <1>1, <1>2, <2>1, <2>2, RemoveKeeps
<1>4. shown' \in States \cup {None} /\ session # None
    BY <1>1, BrowserAssumption DEF PageIInv, PageTypeOK, WellAsked
<1>5. PageTypeOK'
    BY <1>1, <1>3, <1>4 DEF Flights, PageIInv, PageTypeOK, barVars
<1>6. BarIsSource'
    BY <1>1, <1>2, <1>3, <1>4 DEF PageIInv, BarIsSource, barVars
<1> QED
    BY <1>3, <1>5, <1>6 DEF PageIInv, Flights

\* An answer that neither the table nor the bar is drawn from.
LEMMA AnswerAside ==
    ASSUME PageIInv, NEW q \in InFlight, Flights', crossed => crossed',
           UNCHANGED <<session, timer, shown, barVars, editorVars>>
    PROVE  PageIInv'
<1>1. PageTypeOK' /\ AloneStaysAlone'
    BY DEF Flights, PageIInv, PageTypeOK, AloneStaysAlone, barVars, editorVars
<1>2. BarIsSource'
    BY BarStays
<1> QED
    BY <1>1, <1>2 DEF PageIInv, Flights

LEMMA SavedKeeps == ASSUME PageIInv, NEW q \in InFlight, Saved(q) PROVE PageIInv'
<1> DEFINE r == Plain("state")
<1>1. WellAsked(r) /\ r # Idle /\ r.kind = "state" /\ r.answer = "none"
    BY PlainLeaving DEF Kinds
<1>2. /\ SendAfter({q}, r) /\ {q} \in SUBSET InFlight
      /\ flight[q].kind = "save" /\ flight[q].answer = "ok"
      /\ UNCHANGED <<session, timer, shown, barVars, editorVars>>
    BY DEF Saved
<1> HIDE DEF r
<1>3. timer' => Recomputes \subseteq {q}
    BY <1>2 DEF PageIInv, OneRefresh
<1>4. ~crossed => shown' = None \/ shown'.doc = session.doc
    BY <1>2 DEF PageIInv, OneAtATime
<1>5. Flights'
    BY <1>1, <1>2, <1>3, <1>4, SendKeeps
<1>6. crossed => crossed'
    BY <1>2 DEF SendAfter
<1> QED
    BY <1>2, <1>5, <1>6, AnswerAside

LEMMA ReportErrorKeeps == ASSUME PageIInv, NEW q \in InFlight, ReportError(q) PROVE PageIInv'
<1>1. /\ flight' = [flight EXCEPT ![q] = Idle] /\ flight[q].answer = "error"
      /\ UNCHANGED <<session, timer, shown, barVars, editorVars, crossed>>
    BY DEF ReportError
<1>2. flight[q].kind # "state"
    BY <1>1 DEF PageIInv, PageTypeOK, WellAsked
<1>3. ~crossed => shown = session
    BY <1>1, <1>2 DEF PageIInv, OneAtATime
<1>4. crossed' \in BOOLEAN
    BY <1>1 DEF PageIInv, PageTypeOK
<1>5. Flights'
    BY <1>1, <1>3, <1>4, DropKeeps
<1> QED
    BY <1>1, <1>5, AnswerAside

LEMMA LostKeeps == ASSUME PageIInv, NEW q \in InFlight, Lost(q) PROVE PageIInv'
<1>1. /\ flight' = [flight EXCEPT ![q] = Idle] /\ crossed' = TRUE
      /\ UNCHANGED <<session, timer, shown, barVars, editorVars>>
    BY DEF Lost
<1>2. Flights'
    BY <1>1, DropKeeps
<1> QED
    BY <1>1, <1>2, AnswerAside

LEMMA StutterKeeps == PageIInv /\ UNCHANGED pageVars => PageIInv'
<1> SUFFICES ASSUME PageIInv, UNCHANGED pageVars PROVE PageIInv'
    OBVIOUS
<1>1. Flights'
    BY FlightsStay DEF pageVars
<1>2. PageTypeOK' /\ AloneStaysAlone' /\ BarIsSource'
    BY <1>1 DEF Flights, PageIInv, PageTypeOK, AloneStaysAlone, BarIsSource, pageVars,
       barVars, editorVars,
       InFlight
<1> QED
    BY <1>1, <1>2 DEF PageIInv, Flights

LEMMA StepKeeps == PageIInv /\ [PageNext]_pageVars => PageIInv'
BY SelectKeeps, RefocusKeeps, EditInCellKeeps, CommitKeeps, FocusBarKeeps, TypeInBarKeeps,
   EnterBarKeeps, LeaveBarKeeps, UseControlKeeps, ToggleRevealKeeps, RefreshKeeps, ReloadKeeps,
   HandlingKeeps, RenderKeeps, RefreshValuesKeeps, SavedKeeps, ReportErrorKeeps, LostKeeps,
   StutterKeeps DEF PageNext, Settle

\* The page shows the session when nothing is in flight and nothing overlapped,
\* whatever is typed, clicked, answered or lost.
THEOREM PageInvariance == PageSpec => []PageIInv
BY Begin, StepKeeps, PTL DEF PageSpec

\* No answer comes to an input that got the focus with nothing in flight.
THEOREM StaysAlone == PageSpec => []AloneStaysAlone
BY PageInvariance, PTL DEF PageIInv

LEMMA TypedStays ==
    PageIInv /\ [PageNext]_pageVars => (bar = Typed /\ bar' = Typed => sel' = sel)
<1> SUFFICES ASSUME PageIInv, [PageNext]_pageVars, bar' = Typed PROVE sel' = sel
    OBVIOUS
<1>1. \A c \in Cells : Source(c) # Typed
    BY SourceIs, BrowserAssumption DEF PageIInv
<1>2. ASSUME NEW q \in InFlight, Render(q) PROVE sel' = sel
    <2>1. PageIInv'
        BY <1>2, RenderKeeps
    <2>2. shown' \in States
        BY <1>2, BrowserAssumption DEF Render, PageIInv, PageTypeOK, WellAsked
    <2>3. sel' \in Cells => shown'.doc[sel'] \in Texts
        BY <2>2 DEF States, Sheets
    <2> QED
        BY <1>2, <2>1, <2>3, BrowserAssumption DEF Render, SelectAgain, barVars, PageIInv,
           PageTypeOK
<1>3. ASSUME NEW c \in Cells, Select(c) \/ Refocus(c) PROVE FALSE
    BY <1>1, <1>3 DEF Select, Refocus
<1>4. ~Reload
    BY BrowserAssumption DEF Reload
<1>5. ASSUME NEW q \in InFlight, RefreshValues(q) \/ Saved(q) \/ ReportError(q) \/ Lost(q)
      PROVE  sel' = sel
    BY <1>5 DEF RefreshValues, Saved, ReportError, Lost, barVars
<1>6. ASSUME NEW q \in Slots, TakeUp(q) PROVE sel' = sel
    BY <1>6 DEF TakeUp, Answered, Refused, barVars
<1>7. ASSUME EditInCell \/ Commit \/ FocusBar \/ TypeInBar \/ EnterBar \/ LeaveBar
             \/ UseControl \/ ToggleReveal \/ Refresh
      PROVE  sel' = sel
    BY <1>7 DEF EditInCell, Commit, FocusBar, TypeInBar, EnterBar, LeaveBar, UseControl,
       ToggleReveal, Refresh, barVars
<1> QED
    BY <1>2, <1>3, <1>4, <1>5, <1>6, <1>7 DEF PageNext, Settle, pageVars, barVars

\* What is typed in the formula bar goes to the cell it was typed for, and what
\* was not typed is the source of the cell selected.
THEOREM BarWritesItsCell == PageSpec => BarIsOfSelection
<1>1. PageIInv /\ [PageNext]_pageVars => [bar = Typed /\ bar' = Typed => sel' = sel]_pageVars
    BY TypedStays
<1>2. PageIInv => (Quiet /\ bar \notin {Typed, None} => bar = shown.doc[sel])
    BY DEF PageIInv, BarIsSource, Quiet
<1> QED
    BY <1>1, <1>2, PageInvariance, PTL DEF PageSpec, BarIsOfSelection
=============================================================================
