---------------------------- MODULE SessionProofs ----------------------------
(***************************************************************************)
(* Session's inductive invariant, and that the mutex makes it the atomic   *)
(* object of SheetSession, for any callers, documents and edits.           *)
(***************************************************************************)
EXTENDS Session, TLAPS

\* The engine answers a document, or Rejected where it may.
LEMMA ApplyType ==
    ASSUME NEW d \in Docs, NEW e \in Edits
    PROVE  Apply(d, e) \in Docs \cup {Rejected}
BY EngineAssumption DEF Edits

LEMMA StructuralApplyType ==
    ASSUME NEW d \in Docs, NEW e \in StructuralEdits
    PROVE  Apply(d, e) \in Docs /\ Apply(d, e) # Rejected
BY EngineAssumption

\* The invariant holds when the session is opened.
LEMMA InitIInv == Init => IInv
<1> SUFFICES ASSUME Init PROVE IInv
    OBVIOUS
<1> USE EngineAssumption, CallerAssumption DEF Init, SheetInit, Pass, state
<1>1. TypeOK
    BY DEF TypeOK, SheetTypeOK, Methods, Snapshots
<1>2. LockDiscipline
    BY DEF LockDiscipline, Section
<1>3. SectionIntent /\ Coherent /\ NoTornState
    BY DEF SectionIntent, Coherent, NoTornState
<1> QED
    BY <1>1, <1>2, <1>3 DEF IInv

\* Every step keeps the types.
LEMMA StepTypeOK == IInv /\ [Next]_vars => TypeOK'
<1> SUFFICES ASSUME IInv, [Next]_vars PROVE TypeOK'
    OBVIOUS
<1> USE EngineAssumption, CallerAssumption
    DEF IInv, TypeOK, SheetTypeOK, Section, Goto, sheetVars, Pass
<1>1. ASSUME NEW c \in Callers, Call(c) PROVE TypeOK'
    BY <1>1 DEF Call
<1>2. ASSUME NEW c \in Callers, Lock(c) PROVE TypeOK'
    BY <1>2 DEF Lock
<1>3. ASSUME NEW c \in Callers, SetCellApply(c) PROVE TypeOK'
    <2>1. op[c].edit \in Edits
        BY <1>3 DEF SetCellApply, Methods, Edits
    <2>2. updated'[c] \in Docs \cup {Rejected}
        BY <1>3, <2>1, ApplyType DEF SetCellApply
    <2> QED
        BY <1>3, <2>2 DEF SetCellApply
<1>4. ASSUME NEW c \in Callers, StructuralApply(c) PROVE TypeOK'
    <2>1. op[c].edit \in StructuralEdits
        BY <1>4 DEF StructuralApply, Methods
    <2> QED
        BY <1>4, <2>1, StructuralApplyType DEF StructuralApply
<1>5. ASSUME NEW c \in Callers, Assign(c) PROVE TypeOK'
    BY <1>5 DEF Assign, SectionIntent
<1>6. ASSUME NEW c \in Callers, EnterRecompute(c) PROVE TypeOK'
    BY <1>6 DEF EnterRecompute
<1>7. ASSUME NEW c \in Callers, BeginPass(c) PROVE TypeOK'
    BY <1>7 DEF BeginPass
<1>8. ASSUME NEW c \in Callers, Publish(c) PROVE TypeOK'
    BY <1>8 DEF Publish
<1>9. ASSUME NEW c \in Callers, ClearDirty(c) PROVE TypeOK'
    BY <1>9 DEF ClearDirty
<1>10. ASSUME NEW c \in Callers, ReadOnly(c) PROVE TypeOK'
    BY <1>10 DEF ReadOnly
<1>11. ASSUME NEW c \in Callers, Return(c) PROVE TypeOK'
    BY <1>11 DEF Return, state, Snapshots
<1>12. CASE UNCHANGED vars
    BY <1>12 DEF vars, callVars
<1> QED
    BY <1>1, <1>2, <1>3, <1>4, <1>5, <1>6, <1>7, <1>8, <1>9, <1>10, <1>11, <1>12
    DEF Next, Run

\* Every step keeps the section to the holder of mu: Lock admits one caller,
\* and Return is the only way out.
LEMMA StepLockDiscipline == IInv /\ [Next]_vars => LockDiscipline'
<1> SUFFICES ASSUME IInv, [Next]_vars PROVE LockDiscipline'
    OBVIOUS
<1> USE CallerAssumption DEF IInv, TypeOK, LockDiscipline, Section, Goto
<1>1. ASSUME NEW c \in Callers, Call(c) PROVE LockDiscipline'
    BY <1>1 DEF Call
<1>2. ASSUME NEW c \in Callers, Lock(c) PROVE LockDiscipline'
    BY <1>2 DEF Lock
<1>3. ASSUME NEW c \in Callers, SetCellApply(c) PROVE LockDiscipline'
    BY <1>3 DEF SetCellApply
<1>4. ASSUME NEW c \in Callers, StructuralApply(c) PROVE LockDiscipline'
    BY <1>4 DEF StructuralApply
<1>5. ASSUME NEW c \in Callers, Assign(c) PROVE LockDiscipline'
    BY <1>5 DEF Assign
<1>6. ASSUME NEW c \in Callers, EnterRecompute(c) PROVE LockDiscipline'
    BY <1>6 DEF EnterRecompute
<1>7. ASSUME NEW c \in Callers, BeginPass(c) PROVE LockDiscipline'
    BY <1>7 DEF BeginPass
<1>8. ASSUME NEW c \in Callers, Publish(c) PROVE LockDiscipline'
    BY <1>8 DEF Publish
<1>9. ASSUME NEW c \in Callers, ClearDirty(c) PROVE LockDiscipline'
    BY <1>9 DEF ClearDirty
<1>10. ASSUME NEW c \in Callers, ReadOnly(c) PROVE LockDiscipline'
    BY <1>10 DEF ReadOnly
<1>11. ASSUME NEW c \in Callers, Return(c) PROVE LockDiscipline'
    BY <1>11 DEF Return
<1>12. CASE UNCHANGED vars
    BY <1>12 DEF vars, callVars
<1> QED
    BY <1>1, <1>2, <1>3, <1>4, <1>5, <1>6, <1>7, <1>8, <1>9, <1>10, <1>11, <1>12
    DEF Next, Run

\* While one caller is inside a section, no other is.
LEMMA Alone ==
    ASSUME IInv, NEW c \in Callers, pc[c] \in Section
    PROVE  \A d \in Callers : d # c => pc[d] \notin Section
BY DEF IInv, LockDiscipline

\* Every step keeps what a section relies on: nobody else moves doc or tick.
LEMMA StepSectionIntent == IInv /\ [Next]_vars => SectionIntent'
<1> SUFFICES ASSUME IInv, [Next]_vars PROVE SectionIntent'
    OBVIOUS
<1> USE DEF IInv, TypeOK, SectionIntent, Section, Goto, sheetVars
<1>1. ASSUME NEW c \in Callers, Call(c) PROVE SectionIntent'
    BY <1>1 DEF Call
<1>2. ASSUME NEW c \in Callers, Lock(c) PROVE SectionIntent'
    BY <1>2 DEF Lock
<1>3. ASSUME NEW c \in Callers, SetCellApply(c) PROVE SectionIntent'
    BY <1>3 DEF SetCellApply
<1>4. ASSUME NEW c \in Callers, StructuralApply(c) PROVE SectionIntent'
    <2>1. op[c].edit \in StructuralEdits
        BY <1>4 DEF StructuralApply, Methods
    <2> QED
        BY <1>4, <2>1, StructuralApplyType DEF StructuralApply, SheetTypeOK
<1>5. ASSUME NEW c \in Callers, Assign(c) PROVE SectionIntent'
    BY <1>5, Alone DEF Assign
<1>6. ASSUME NEW c \in Callers, EnterRecompute(c) PROVE SectionIntent'
    BY <1>6 DEF EnterRecompute
<1>7. ASSUME NEW c \in Callers, BeginPass(c) PROVE SectionIntent'
    BY <1>7 DEF BeginPass
<1>8. ASSUME NEW c \in Callers, Publish(c) PROVE SectionIntent'
    BY <1>8, Alone DEF Publish
<1>9. ASSUME NEW c \in Callers, ClearDirty(c) PROVE SectionIntent'
    BY <1>9 DEF ClearDirty
<1>10. ASSUME NEW c \in Callers, ReadOnly(c) PROVE SectionIntent'
    BY <1>10 DEF ReadOnly
<1>11. ASSUME NEW c \in Callers, Return(c) PROVE SectionIntent'
    BY <1>11 DEF Return
<1>12. CASE UNCHANGED vars
    BY <1>12 DEF vars, callVars
<1> QED
    BY <1>1, <1>2, <1>3, <1>4, <1>5, <1>6, <1>7, <1>8, <1>9, <1>10, <1>11, <1>12
    DEF Next, Run

\* Every step leaves the read model that of the document, or a pass under way.
LEMMA StepCoherent == IInv /\ [Next]_vars => Coherent'
<1> SUFFICES ASSUME IInv, [Next]_vars PROVE Coherent'
    OBVIOUS
<1> USE DEF IInv, TypeOK, SheetTypeOK, Coherent, Section, Goto, sheetVars
<1>1. ASSUME NEW c \in Callers, Call(c) PROVE Coherent'
    BY <1>1 DEF Call
<1>2. ASSUME NEW c \in Callers, Lock(c) PROVE Coherent'
    BY <1>2 DEF Lock
<1>3. ASSUME NEW c \in Callers, SetCellApply(c) PROVE Coherent'
    BY <1>3 DEF SetCellApply
<1>4. ASSUME NEW c \in Callers, StructuralApply(c) PROVE Coherent'
    BY <1>4 DEF StructuralApply
<1>5. ASSUME NEW c \in Callers, Assign(c) PROVE Coherent'
    BY <1>5 DEF Assign
<1>6. ASSUME NEW c \in Callers, EnterRecompute(c) PROVE Coherent'
    BY <1>6 DEF EnterRecompute
<1>7. ASSUME NEW c \in Callers, BeginPass(c) PROVE Coherent'
    BY <1>7 DEF BeginPass
<1>8. ASSUME NEW c \in Callers, Publish(c) PROVE Coherent'
    BY <1>8 DEF Publish, SectionIntent, Pass
<1>9. ASSUME NEW c \in Callers, ClearDirty(c) PROVE Coherent'
    BY <1>9 DEF ClearDirty
<1>10. ASSUME NEW c \in Callers, ReadOnly(c) PROVE Coherent'
    BY <1>10 DEF ReadOnly
<1>11. ASSUME NEW c \in Callers, Return(c) PROVE Coherent'
    BY <1>11 DEF Return
<1>12. CASE UNCHANGED vars
    BY <1>12 DEF vars, callVars
<1> QED
    BY <1>1, <1>2, <1>3, <1>4, <1>5, <1>6, <1>7, <1>8, <1>9, <1>10, <1>11, <1>12
    DEF Next, Run

\* Only Return hands a State out, and it does so from a finished section.
LEMMA StepNoTornState == IInv /\ [Next]_vars => NoTornState'
<1> SUFFICES ASSUME IInv, [Next]_vars PROVE NoTornState'
    OBVIOUS
<1> USE DEF IInv, TypeOK, NoTornState
<1>1. ASSUME NEW c \in Callers, Return(c) PROVE NoTornState'
    <2>1. \A d \in Callers : pc[d] \notin {"recompute", "publish"}
        BY <1>1, Alone DEF Return, Goto, Section
    <2>2. state.computed.doc = state.doc
        BY <2>1 DEF Coherent, state
    <2> QED
        BY <1>1, <2>2 DEF Return
<1>2. ASSUME UNCHANGED reply PROVE NoTornState'
    BY <1>2
<1> QED
    BY <1>1, <1>2 DEF Next, Run, vars, callVars, Call, Lock, SetCellApply,
       StructuralApply, Assign, EnterRecompute, BeginPass, Publish, ClearDirty,
       ReadOnly

LEMMA StepIInv == IInv /\ [Next]_vars => IInv'
BY StepTypeOK, StepLockDiscipline, StepSectionIntent, StepCoherent,
   StepNoTornState DEF IInv

\* The inductive invariant holds throughout: mutual exclusion, and a read
\* model that is the document's whenever the lock is free.
THEOREM Invariance == Spec => []IInv
<1>1. Init => IInv
    BY InitIInv
<1>2. IInv /\ [Next]_vars => IInv'
    BY StepIInv
<1> QED
    BY <1>1, <1>2, PTL DEF Spec

\* No reader of the session is ever handed a source with another's values.
THEOREM NeverTorn == Spec => []NoTornState
<1>1. IInv => NoTornState
    BY DEF IInv
<1> QED
    BY <1>1, Invariance, PTL

\* Passes publish under consecutive ordinals.
THEOREM Ordinals == Spec => PassesInOrder
<1> DEFINE InOrder == computed' # computed => computed'.tick = computed.tick + 1
<1>1. IInv /\ [Next]_vars => [InOrder]_vars
    <2> SUFFICES ASSUME IInv, Next PROVE InOrder
        BY DEF vars
    <2>1. ASSUME NEW c \in Callers, Publish(c) PROVE InOrder
        BY <2>1 DEF Publish, Goto, IInv, SectionIntent, Coherent, Pass, TypeOK, SheetTypeOK
    <2>2. ASSUME UNCHANGED computed PROVE InOrder
        BY <2>2
    <2> QED
        BY <2>1, <2>2 DEF Next, Run, sheetVars, Call, Lock, SetCellApply,
           StructuralApply, Assign, EnterRecompute, BeginPass, ClearDirty,
           ReadOnly, Return
<1> QED
    BY <1>1, Invariance, PTL DEF Spec, PassesInOrder

\* One step of a caller is one atomic session step, or none: the assignment of
\* an edit and the entry into a recompute are where an operation takes effect.
LEMMA StepRefines ==
    IInv /\ IInv' /\ [Next]_vars => [Atomic!SheetNext]_(Atomic!sheetVars)
<1> SUFFICES ASSUME IInv, IInv', [Next]_vars
             PROVE  Atomic!SheetNext \/ UNCHANGED Atomic!sheetVars
    OBVIOUS
<1> USE DEF Goto, InPass, sheetVars, Atomic!sheetVars, Atomic!Pass, Pass
<1>1. ASSUME NEW c \in Callers, Assign(c) PROVE Atomic!Edit(op[c].edit) /\ op[c].edit \in Edits
    <2>1. op[c].edit \in Edits
        BY <1>1 DEF Assign, IInv, TypeOK, SectionIntent, Methods, Edits
    <2>2. ~InPass
        BY <1>1, Alone DEF Assign, Section
    <2>3. InPass'
        BY <1>1 DEF Assign, IInv, TypeOK
    <2>4. doc' = Apply(doc, op[c].edit) /\ Apply(doc, op[c].edit) # Rejected
        BY <1>1 DEF Assign, IInv, SectionIntent
    <2> QED
        BY <1>1, <2>1, <2>2, <2>3, <2>4 DEF Assign, Atomic!Edit, Atomic!Recomputed
<1>2. ASSUME NEW c \in Callers, EnterRecompute(c) PROVE Atomic!Recompute
    <2>1. ~InPass
        BY <1>2, Alone DEF EnterRecompute, Section
    <2>2. InPass'
        BY <1>2 DEF EnterRecompute, IInv, TypeOK
    <2> QED
        BY <1>2, <2>1, <2>2 DEF EnterRecompute, Atomic!Recompute, Atomic!Recomputed
<1>3. ASSUME NEW c \in Callers, Publish(c) PROVE UNCHANGED Atomic!sheetVars
    <2>1. InPass
        BY <1>3 DEF Publish
    <2>2. ~InPass'
        BY <1>3, Alone DEF Publish, Section, IInv, TypeOK
    <2>3. pass[c] = Pass(doc, tick)
        BY <1>3 DEF Publish, IInv, SectionIntent
    <2> QED
        BY <1>3, <2>1, <2>2, <2>3 DEF Publish
<1>4. ASSUME NEW c \in Callers, BeginPass(c) PROVE UNCHANGED Atomic!sheetVars
    <2>1. InPass /\ InPass'
        BY <1>4 DEF BeginPass, IInv, TypeOK
    <2> QED
        BY <1>4, <2>1 DEF BeginPass
<1>5. ASSUME NEW c \in Callers, ClearDirty(c) PROVE Atomic!MarkSaved
    <2>1. ~InPass /\ ~InPass'
        BY <1>5, Alone DEF ClearDirty, Section, IInv, TypeOK
    <2> QED
        BY <1>5, <2>1 DEF ClearDirty, Atomic!MarkSaved
<1>6. ASSUME NEW c \in Callers,
             \/ Call(c) \/ Lock(c) \/ SetCellApply(c) \/ StructuralApply(c)
             \/ ReadOnly(c) \/ Return(c)
      PROVE  UNCHANGED Atomic!sheetVars
    <2>1. UNCHANGED sheetVars
        BY <1>6 DEF Call, Lock, SetCellApply, StructuralApply, ReadOnly, Return
    <2>2. pc[c] \notin {"recompute", "publish"} /\ pc'[c] \notin {"recompute", "publish"}
        BY <1>6 DEF Call, Lock, SetCellApply, StructuralApply, ReadOnly, Return,
                    IInv, TypeOK
    <2>3. \A d \in Callers : d # c => pc'[d] = pc[d]
        BY <1>6 DEF Call, Lock, SetCellApply, StructuralApply, ReadOnly, Return,
                    IInv, TypeOK
    <2>4. InPass' <=> InPass
        BY <2>2, <2>3
    <2> QED
        BY <2>1, <2>4
<1>7. CASE UNCHANGED vars
    BY <1>7 DEF vars, callVars
<1> QED
    BY <1>1, <1>2, <1>3, <1>4, <1>5, <1>6, <1>7
    DEF Next, Run, Atomic!SheetNext, Atomic!Edits, Edits

\* Session implements SheetSession: whatever the callers interleave, the guarded
\* fields change as if each method had run alone.
THEOREM Refinement == Spec => ActsAtomically
<1>1. Init => Atomic!SheetInit
    BY DEF Init, SheetInit, InPass, Atomic!SheetInit, Atomic!Pass, Pass
<1>2. IInv /\ IInv' /\ [Next]_vars => [Atomic!SheetNext]_(Atomic!sheetVars)
    BY StepRefines
<1> QED
    BY <1>1, <1>2, Invariance, PTL DEF Spec, ActsAtomically, Atomic!SheetSpec
=============================================================================
