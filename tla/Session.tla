------------------------------- MODULE Session -------------------------------
(***************************************************************************)
(* internal/session at the grain of its mutex: every method locks mu, runs *)
(* several reads and writes of the guarded fields, and unlocks on return.  *)
(* Callers are the goroutines that hold the session (one per HTTP request, *)
(* or the TUI's update loop); each may call any method, again and again.   *)
(*                                                                         *)
(* The engine (Apply, and the compute a pass runs) is external code.       *)
(***************************************************************************)
EXTENDS SheetSession

CONSTANTS
    Callers,
    NoCaller

ASSUME CallerAssumption == NoCaller \notin Callers

VARIABLES
    mu,      \* the caller holding Session.mu, or NoCaller
    pc,      \* pc[c]: where caller c stands
    op,      \* op[c]: the method c called, and its argument
    updated, \* updated[c]: SetCell's and structuralEdit's edited document
    pass,    \* pass[c]: the pass c's recompute is evaluating
    reply    \* reply[c]: the last State c received

callVars == <<mu, pc, op, updated, pass, reply>>
vars == <<sheetVars, callVars>>

Methods ==
    [method : {"SetCell"}, edit : CellEdits]
        \cup [method : {"structuralEdit"}, edit : StructuralEdits]
        \cup [method : {"Recompute", "Snapshot", "MarkSaved"}]

\* The program points of a method: waiting for mu, then inside the section.
Section == {"body", "assign", "recompute", "publish", "return"}

Snapshots == [doc : Docs, computed : [doc : Docs, tick : Nat], isDirty : BOOLEAN]

TypeOK ==
    /\ SheetTypeOK
    /\ mu \in Callers \cup {NoCaller}
    /\ pc \in [Callers -> {"idle", "lock"} \cup Section]
    /\ op \in [Callers -> Methods]
    /\ updated \in [Callers -> Docs \cup {Rejected}]
    /\ pass \in [Callers -> [doc : Docs, tick : Nat]]
    /\ reply \in [Callers -> Snapshots]

Goto(c, point) == pc' = [pc EXCEPT ![c] = point]

\* state builds the read model from the fields as they stand.
state == [doc |-> doc, computed |-> computed, isDirty |-> isDirty]

Init ==
    /\ SheetInit
    /\ mu = NoCaller
    /\ pc = [c \in Callers |-> "idle"]
    /\ op = [c \in Callers |-> [method |-> "Snapshot"]]
    /\ updated = [c \in Callers |-> Rejected]
    /\ pass = [c \in Callers |-> Pass(InitialDoc, 0)]
    /\ reply = [c \in Callers |-> state]

\* A caller enters a method.  Calls that run a pass stop at MaxTick.
Call(c) ==
    /\ pc[c] = "idle"
    /\ \E m \in Methods :
        /\ m.method \in {"Snapshot", "MarkSaved"} \/ tick < MaxTick
        /\ op' = [op EXCEPT ![c] = m]
    /\ Goto(c, "lock")
    /\ UNCHANGED <<sheetVars, mu, updated, pass, reply>>

\* Mutated: a method that does not lock.
LockUnguarded(c) ==
    /\ pc[c] = "lock"
    /\ mu' = c
    /\ Goto(c, "body")
    /\ UNCHANGED <<sheetVars, op, updated, pass, reply>>

\* s.mu.Lock()
Lock(c) ==
    /\ pc[c] = "lock"
    /\ mu = NoCaller
    /\ mu' = c
    /\ Goto(c, "body")
    /\ UNCHANGED <<sheetVars, op, updated, pass, reply>>

\* Mutated: the flag is set before the engine's error is looked at.
SetCellApplyDirties(c) ==
    /\ pc[c] = "body"
    /\ op[c].method = "SetCell"
    /\ updated' = [updated EXCEPT ![c] = Apply(doc, op[c].edit)]
    /\ isDirty' = TRUE
    /\ Goto(c, IF updated'[c] = Rejected THEN "return" ELSE "assign")
    /\ UNCHANGED <<doc, computed, tick, mu, op, pass, reply>>

\* Mutated: the error path returns without unlocking.
SetCellApplyLeaksLock(c) ==
    /\ pc[c] = "body"
    /\ op[c].method = "SetCell"
    /\ updated' = [updated EXCEPT ![c] = Apply(doc, op[c].edit)]
    /\ Goto(c, IF updated'[c] = Rejected THEN "idle" ELSE "assign")
    /\ UNCHANGED <<sheetVars, mu, op, pass, reply>>

\* SetCell asks the engine for the edited document; an error returns with
\* nothing assigned.
SetCellApply(c) ==
    /\ pc[c] = "body"
    /\ op[c].method = "SetCell"
    /\ updated' = [updated EXCEPT ![c] = Apply(doc, op[c].edit)]
    /\ Goto(c, IF updated'[c] = Rejected THEN "return" ELSE "assign")
    /\ UNCHANGED <<sheetVars, mu, op, pass, reply>>

\* structuralEdit's transform cannot fail.
StructuralApply(c) ==
    /\ pc[c] = "body"
    /\ op[c].method = "structuralEdit"
    /\ updated' = [updated EXCEPT ![c] = Apply(doc, op[c].edit)]
    /\ Goto(c, "assign")
    /\ UNCHANGED <<sheetVars, mu, op, pass, reply>>

\* s.doc = updated; s.isDirty = true
Assign(c) ==
    /\ pc[c] = "assign"
    /\ doc' = updated[c]
    /\ isDirty' = TRUE
    /\ Goto(c, "recompute")
    /\ UNCHANGED <<computed, tick, mu, op, updated, pass, reply>>

\* Recompute and RefreshImports go straight to a pass.
EnterRecompute(c) ==
    /\ pc[c] = "body"
    /\ op[c].method = "Recompute"
    /\ Goto(c, "recompute")
    /\ UNCHANGED <<sheetVars, mu, op, updated, pass, reply>>

\* recompute takes the sheet and the compute options, the ordinal with them ...
BeginPass(c) ==
    /\ pc[c] = "recompute"
    /\ pass' = [pass EXCEPT ![c] = Pass(doc, tick)]
    /\ Goto(c, "publish")
    /\ UNCHANGED <<sheetVars, mu, op, updated, reply>>

\* Mutated: a pass that does not advance the tick.
PublishKeepsTick(c) ==
    /\ pc[c] = "publish"
    /\ computed' = pass[c]
    /\ Goto(c, "return")
    /\ UNCHANGED <<doc, isDirty, tick, mu, op, updated, pass, reply>>

\* ... and, once the engine has evaluated it, publishes and advances the tick.
Publish(c) ==
    /\ pc[c] = "publish"
    /\ computed' = pass[c]
    /\ tick' = tick + 1
    /\ Goto(c, "return")
    /\ UNCHANGED <<doc, isDirty, mu, op, updated, pass, reply>>

ClearDirty(c) ==
    /\ pc[c] = "body"
    /\ op[c].method = "MarkSaved"
    /\ isDirty' = FALSE
    /\ Goto(c, "return")
    /\ UNCHANGED <<doc, computed, tick, mu, op, updated, pass, reply>>

\* Snapshot stands for every reader of the guarded fields (Source, Explain,
\* References, Embedded, IsVolatile, VolatileSchedules): nothing to write.
ReadOnly(c) ==
    /\ pc[c] = "body"
    /\ op[c].method = "Snapshot"
    /\ Goto(c, "return")
    /\ UNCHANGED <<sheetVars, mu, op, updated, pass, reply>>

\* The deferred s.mu.Unlock(); Recompute and Snapshot return the read model.
Return(c) ==
    /\ pc[c] = "return"
    /\ mu' = NoCaller
    /\ reply' = IF op[c].method \in {"Recompute", "Snapshot"}
                THEN [reply EXCEPT ![c] = state] ELSE reply
    /\ Goto(c, "idle")
    /\ UNCHANGED <<sheetVars, op, updated, pass>>

\* What a caller does on its own once it has called.
Run(c) ==
    \/ SetCellApply(c)
    \/ StructuralApply(c)
    \/ Assign(c)
    \/ EnterRecompute(c)
    \/ BeginPass(c)
    \/ Publish(c)
    \/ ClearDirty(c)
    \/ ReadOnly(c)
    \/ Return(c)

Next == \E c \in Callers : Call(c) \/ Lock(c) \/ Run(c)

Spec == Init /\ [][Next]_vars

\* A goroutine inside a method keeps running; sync.Mutex hands the lock to a
\* waiter it has starved, so a caller that waits is served in the end.
Fairness == \A c \in Callers : WF_vars(Run(c)) /\ SF_vars(Lock(c))

FairSpec == Spec /\ Fairness
-----------------------------------------------------------------------------
\* The states the lock makes possible: only the holder is inside a section.
LockDiscipline ==
    /\ \A c \in Callers : pc[c] \in Section <=> mu = c

\* A section knows what it holds: an edit about to be assigned is the edit of
\* the document as it stands, and a pass about to be published is of it too.
SectionIntent ==
    \A c \in Callers :
        /\ pc[c] = "assign" => updated[c] = Apply(doc, op[c].edit) /\ updated[c] # Rejected
        /\ pc[c] = "assign" => op[c].method \in {"SetCell", "structuralEdit"}
        /\ pc[c] = "publish" => pass[c] = Pass(doc, tick)

\* Outside the edit sections the read model is of the present document, and
\* the tick is one past the pass it came from.
Coherent ==
    /\ (\A c \in Callers : pc[c] \notin {"recompute", "publish"}) => computed.doc = doc
    /\ computed.tick + 1 = tick

\* Every State handed out pairs the source with the values computed from that
\* very source (State's Source and Computed fields): no reader sees an edit
\* whose recompute has not finished, whoever else is editing.
NoTornState == \A c \in Callers : reply[c].computed.doc = reply[c].doc

IInv == TypeOK /\ LockDiscipline /\ SectionIntent /\ Coherent /\ NoTornState

\* "each pass advances the ordinal read by tick()/frame()": a later pass never
\* publishes under the ordinal of an earlier one, and none is skipped.
PassesInOrder ==
    [][computed' # computed => computed'.tick = computed.tick + 1]_vars

\* Every call returns: no method leaves mu held, on its error path either.
EveryCallReturns == \A c \in Callers : pc[c] = "lock" ~> pc[c] = "idle"

\* The session is one atomic object: an edit takes effect with its assignment,
\* and its recompute, still running under mu, already counts as done.
InPass == \E c \in Callers : pc[c] \in {"recompute", "publish"}

Atomic == INSTANCE SheetSession WITH
    computed <- IF InPass THEN Pass(doc, tick) ELSE computed,
    tick <- IF InPass THEN tick + 1 ELSE tick

\* Concurrent edits, passes and saves leave the session as if they had run one
\* after the other: no edit is computed from a document another has replaced.
ActsAtomically == Atomic!SheetSpec
=============================================================================
